---------------------------- MODULE Spec2Model ----------------------------
(***************************************************************************)
(* Model of the face-health analytics core:                                *)
(*   - the eye-state tracker of src/lib/faceInsights.ts,                   *)
(*   - the geometry analyzer getFaceMetrics,                               *)
(*   - the per-frame colour-sample buffer and the rate-limited             *)
(*     heart-rate / respiration / HRV recomputation of processFrame.       *)
(*                                                                         *)
(* Numbers.  Timestamps are integer milliseconds.  Openness values are     *)
(* fixed point with Unit = 1.0 (integer division truncates).  A fraction   *)
(* over the tracker window (perclos, blink rate) is kept as its exact      *)
(* numerator over windowMs.                                                *)
(***************************************************************************)
EXTENDS Integers, Sequences, FiniteSets, TLC

\* ------------------------------------------------------------------ bounds
\* number of tracker updates explored in the tracker specification
MaxUpdates == 4

\* ------------------------------------------------------- program constants
Unit == 1000 * 1000
Null == -1
DefaultWindowMs == 60000
BlinkMinMs == 80
BlinkMaxMs == 500
ThreshMin == (8 * Unit) \div 100
ThreshMax == (60 * Unit) \div 100
BaselineKeep == 98
BaselineGain == 2
ThreshPct == 55
YawnLo == (25 * Unit) \div 100
YawnSpan == (25 * Unit) \div 100

\* ------------------------------------------------------------------ helpers
Max(a, b) == IF a >= b THEN a ELSE b
Min(a, b) == IF a <= b THEN a ELSE b

\* faceInsights.ts clamp01 on fixed-point values
clamp01(v) == Max(0, Min(Unit, v))

VARIABLES
  state,   \* TrackerState of the tracker under test
  snap,    \* FaceInsightsSnapshot returned by the last update
  now,     \* timestamp passed to the last update
  trace    \* history of the updates made so far (observation only)

trackerVars == << state, snap, now, trace >>

VARIABLES
  landmarks,  \* the landmark list handed to getFaceMetrics
  metrics,    \* the FaceMetricsResult it returned
  measured    \* whether getFaceMetrics has been applied to landmarks

metricsVars == << landmarks, metrics, measured >>

VARIABLES
  samples,         \* samplesRef.current: the colour-sample buffer
  clock,           \* the latest performance.now() reading
  lastHRCompute,   \* timestamp of the last heart-rate computation (0: none)
  lastRespCompute, \* timestamp of the last respiration computation (0: none)
  lastHRVCompute,  \* timestamp of the last HRV computation (0: none)
  frame,           \* what the last animation frame did (observation only)
  hrLog,           \* timestamps of the heart-rate computations so far
  respLog,         \* timestamps of the respiration computations so far
  hrvLog           \* timestamps of the HRV computations so far

VARIABLES
  args,            \* the arguments of a library call under examination
  result,          \* what the call returned
  returned         \* whether the call has returned

callVars == << args, result, returned >>

VARIABLES
  heap,            \* the TrackerState objects created so far
  trackerA,        \* the state object tracker A's closure holds (index in heap)
  trackerB,        \* the state object tracker B's closure holds
  snapA,           \* the snapshot tracker A returned last
  snapB,           \* the snapshot tracker B returned last
  calls            \* updates made so far, on either tracker

sessionVars == << heap, trackerA, trackerB, snapA, snapB, calls >>

VARIABLES
  prevPointsRef,   \* prevPointsRef.current: last frame's landmarks in pixels
  prevAnchorsRef,  \* prevAnchorsRef.current: last frame's anchor triple
  motionNow,       \* the motion value set last (the square of the rms)
  motionSeen       \* what the last motion step did (observation only)

motionVars == << prevPointsRef, prevAnchorsRef, motionNow, motionSeen >>

VARIABLES
  initPc,          \* the await the initialisation effect's async body is at
  active,          \* the effect's closure variable
  mounted,         \* the effect's cleanup has not run
  tracks,          \* the camera tracks of the acquired stream
  srcObject,       \* video.srcObject
  streaming,       \* the component's streaming state
  rafRef,          \* rafRef.current: handle of the scheduled frame, 0 for null
  scheduled,       \* animation-frame callbacks requested and not yet run or cancelled
  handles,         \* animation-frame handles given out so far
  presses          \* what the last press of the Pause/Resume button met (observation only)

lifeVars ==
  << initPc, active, mounted, tracks, srcObject, streaming, rafRef, scheduled,
     handles, presses >>

loopVars ==
  << samples, clock, lastHRCompute, lastRespCompute, lastHRVCompute,
     frame, hrLog, respLog, hrvLog >>

frameVars == << loopVars, motionVars, lifeVars >>

\* ---------------------------------------------------------------- tracker
\* createInsightsTracker: the initial TrackerState
createInsightsTracker(w) ==
  [ closed          |-> FALSE,
    lastStateChange |-> 0,
    blinkTimes      |-> << >>,
    closedSpans     |-> << >>,
    windowMs        |-> w,
    baselineEar     |-> Null ]

\* cleanup(now): prune both histories to the window
cleanup_startOnly(st, t) ==
  LET cutoff == t - st.windowMs
      KeepBlink(b) == b >= cutoff
      KeepSpan(s) == s.start >= cutoff
  IN [ st EXCEPT !.blinkTimes  = SelectSeq(st.blinkTimes, KeepBlink),
                 !.closedSpans = SelectSeq(st.closedSpans, KeepSpan) ]
cleanup_spansOnly(st, t) ==
  LET cutoff == t - st.windowMs
      KeepSpan(s) == s.end >= cutoff \/ s.start >= cutoff
  IN [ st EXCEPT !.closedSpans = SelectSeq(st.closedSpans, KeepSpan) ]
cleanup(st, t) ==
  LET cutoff == t - st.windowMs
      KeepBlink(b) == b >= cutoff
      KeepSpan(s) == s.end >= cutoff \/ s.start >= cutoff
  IN [ st EXCEPT !.blinkTimes  = SelectSeq(st.blinkTimes, KeepBlink),
                 !.closedSpans = SelectSeq(st.closedSpans, KeepSpan) ]

\* one term of the perclos sum: a span clipped to the window
SpanMs(s, cutoff) ==
  LET start == Max(s.start, cutoff)
      end   == Max(start, s.end)
  IN Max(0, end - start)

RECURSIVE SumSpans(_, _)
SumSpans(spans, cutoff) ==
  IF spans = << >> THEN 0
  ELSE SpanMs(Head(spans), cutoff) + SumSpans(Tail(spans), cutoff)

\* perclos(now): numerator over windowMs of clamp01(closedMs / windowMs)
perclos(st, t) ==
  LET cutoff == t - st.windowMs
      spans  == IF st.closed /\ st.lastStateChange > cutoff
                THEN Append(st.closedSpans, [start |-> st.lastStateChange, end |-> t])
                ELSE st.closedSpans
      closedMs == SumSpans(spans, cutoff)
  IN Max(0, Min(st.windowMs, closedMs))

\* snapshot(now, earL, earR, mar, blinkEvent)
snapshot(st, t, earL, earR, mar, blinkEvent) ==
  [ earLeft         |-> earL,
    earRight        |-> earR,
    earAvg          |-> (earL + earR) \div 2,
    blink           |-> blinkEvent,
    blinkRatePerMin |-> Len(st.blinkTimes) * 60000,
    perclos         |-> perclos(st, t),
    mar             |-> mar,
    yawnProbability |-> clamp01((mar - YawnLo) * (Unit \div YawnSpan)) ]

\* the 80-500 ms band of a closure that counts as a blink
isBlinkDuration_strict(duration) == duration > BlinkMinMs /\ duration < BlinkMaxMs
isBlinkDuration_noLower(duration) == duration <= BlinkMaxMs
isBlinkDuration(duration) == duration >= BlinkMinMs /\ duration <= BlinkMaxMs

\* the OPEN -> CLOSED branch of update
closeEyes_noStamp(st, t) == [ st EXCEPT !.closed = TRUE ]
closeEyes(st, t) == [ st EXCEPT !.closed = TRUE, !.lastStateChange = t ]

\* the CLOSED -> OPEN branch of update
openEyes(st, t) ==
  LET start    == st.lastStateChange
      duration == t - start
  IN [ st EXCEPT
         !.blinkTimes  = IF isBlinkDuration(duration) THEN Append(@, t) ELSE @,
         !.closedSpans = Append(@, [start |-> start, end |-> t]),
         !.closed = FALSE,
         !.lastStateChange = t ]

\* the adaptive closure threshold derived from the baseline
threshold_noFloor(baseline) == Min(ThreshMax, (baseline * ThreshPct) \div 100)
threshold(baseline) == Max(ThreshMin, Min(ThreshMax, (baseline * ThreshPct) \div 100))

\* update(metrics, nowMs): the new TrackerState and the returned snapshot
update(st, earL, earR, mar, t) ==
  LET earAvg == (earL + earR) \div 2
      b0     == IF st.baselineEar = Null THEN earAvg ELSE st.baselineEar
      b1     == (BaselineKeep * b0 + BaselineGain * earAvg) \div 100
      thresh == threshold(b1)
      st1    == [ st EXCEPT !.baselineEar = b1 ]
      st2 == IF ~st1.closed /\ earAvg < thresh THEN closeEyes(st1, t)
             ELSE IF st1.closed /\ earAvg >= thresh THEN openEyes(st1, t)
             ELSE st1
      blinkEvent == /\ st1.closed /\ earAvg >= thresh
                    /\ isBlinkDuration(t - st1.lastStateChange)
      st3 == cleanup(st2, t)
  IN [ state |-> st3, snap |-> snapshot(st3, t, earL, earR, mar, blinkEvent) ]

\* ---------------------------------------------------- tracker specification
\* eye openness fed to the tracker: nearly shut, half shut, relaxed open
EarInputs == { (5 * Unit) \div 100, (10 * Unit) \div 100, (30 * Unit) \div 100 }
\* time between two updates (non-decreasing timestamps)
DtInputs == { 0, BlinkMinMs, BlinkMaxMs, BlinkMaxMs + 1, DefaultWindowMs }
MarInputs == { 0 }

NoSnapshot ==
  [ earLeft |-> 0, earRight |-> 0, earAvg |-> 0, blink |-> FALSE,
    blinkRatePerMin |-> 0, perclos |-> 0, mar |-> 0, yawnProbability |-> 0 ]

InitTracker ==
  /\ state = createInsightsTracker(DefaultWindowMs)
  /\ snap = NoSnapshot
  /\ now = 0
  /\ trace = << >>

\* what an observer of the tracker sees of one update
Observed(st, sn, t) ==
  [ t |-> t, ear |-> sn.earAvg, closed |-> st.closed, blink |-> sn.blink,
    rate |-> sn.blinkRatePerMin, perclos |-> sn.perclos,
    lsc |-> st.lastStateChange,
    nblinks |-> Len(st.blinkTimes), nspans |-> Len(st.closedSpans) ]

Update ==
  /\ Len(trace) < MaxUpdates
  /\ \E ear \in EarInputs, mar \in MarInputs, dt \in DtInputs :
       LET r == update(state, ear, ear, mar, now + dt)
       IN /\ state' = r.state
          /\ snap' = r.snap
          /\ now' = now + dt
          /\ trace' = Append(trace, Observed(r.state, r.snap, now + dt))


\* =========================================================== geometry
\* Landmark coordinates are integers in grid units: the coordinate k stands
\* for the normalized value k / Grid.  Derived values are exact rationals
\* [num, den] with den > 0, kept in lowest terms.
Grid == 4
\* Math.hypot is evaluated to 1 / HypotScale of a grid unit (truncated)
HypotScale == 100
\* the 1e-6 floor used under every division
EpsDen == 1000000
\* landmark count from which the index-based formulas are used
MeshMin == 400
\* landmark count of the MediaPipe mesh
MeshSize == 478

Abs(a) == IF a < 0 THEN -a ELSE a

RECURSIVE GCD(_, _)
GCD(a, b) == IF b = 0 THEN a ELSE GCD(b, a % b)

Q(n, d) ==
  LET g == GCD(Abs(n), Abs(d))
      sgn == IF d < 0 THEN -1 ELSE 1
  IN IF n = 0 THEN [num |-> 0, den |-> 1]
     ELSE [num |-> sgn * (n \div g), den |-> sgn * (d \div g)]
QInt(k) == [num |-> k, den |-> 1]
QZero == QInt(0)
QOne == QInt(1)
\* sums are formed over the least common denominator
QAdd(a, b) ==
  LET g == GCD(a.den, b.den)
  IN Q(a.num * (b.den \div g) + b.num * (a.den \div g), (a.den \div g) * b.den)
QSub(a, b) == QAdd(a, [num |-> -b.num, den |-> b.den])
QMul(a, b) == Q(a.num * b.num, a.den * b.den)
QDiv(a, b) == Q(a.num * b.den, a.den * b.num)
QAbs(a) == [num |-> Abs(a.num), den |-> a.den]
QLt(a, b) == a.num * b.den < b.num * a.den
QLe(a, b) == a.num * b.den <= b.num * a.den
QMax(a, b) == IF QLe(b, a) THEN a ELSE b
QMin(a, b) == IF QLe(a, b) THEN a ELSE b
\* a grid coordinate as a normalized value
Coord(k) == Q(k, Grid)
Eps == Q(1, EpsDen)

\* faceMetrics clamp01
clamp01Q(v) == QMax(QZero, QMin(QOne, v))

\* largest r with r * r <= n
ISqrt(n) ==
  CHOOSE r \in 0..(2 * Grid * HypotScale) : r * r <= n /\ n < (r + 1) * (r + 1)

\* Math.hypot of two grid differences, as a normalized value
Hypot(dx, dy) ==
  Q(ISqrt((dx * dx + dy * dy) * HypotScale * HypotScale), HypotScale * Grid)

SetMin(S) == CHOOSE m \in S : \A v \in S : m <= v
SetMax(S) == CHOOSE m \in S : \A v \in S : m >= v

\* boundingBox(pts) of a non-empty point list
boundingBox(pts) ==
  LET xs == { pts[i].x : i \in 1..Len(pts) }
      ys == { pts[i].y : i \in 1..Len(pts) }
  IN [ minX |-> SetMin(xs), minY |-> SetMin(ys),
       maxX |-> SetMax(xs), maxY |-> SetMax(ys),
       width |-> SetMax(xs) - SetMin(xs), height |-> SetMax(ys) - SetMin(ys) ]

\* Array.prototype.sort((a, b) => a - b) on a list of integers
RECURSIVE SortInts(_)
SortInts(s) ==
  IF s = << >> THEN << >>
  ELSE LET rest == SortInts(SubSeq(s, 1, Len(s) - 1))
           v == s[Len(s)]
           RECURSIVE Ins(_)
           Ins(r) == IF r = << >> THEN << v >>
                     ELSE IF v < Head(r) THEN << v >> \o r
                          ELSE << Head(r) >> \o Ins(Tail(r))
       IN Ins(rest)


\* sort((a, b) => b.y - a.y): lowest points (largest y) first, stable
RECURSIVE SortByYDesc(_)
SortByYDesc(s) ==
  IF s = << >> THEN << >>
  ELSE LET rest == SortByYDesc(SubSeq(s, 1, Len(s) - 1))
           v == s[Len(s)]
           RECURSIVE Ins(_)
           Ins(r) == IF r = << >> THEN << v >>
                     ELSE IF v.y > Head(r).y THEN << v >> \o r
                          ELSE << Head(r) >> \o Ins(Tail(r))
       IN Ins(rest)

\* sort((a, b) => a.x - b.x), stable
RECURSIVE SortByX(_)
SortByX(s) ==
  IF s = << >> THEN << >>
  ELSE LET rest == SortByX(SubSeq(s, 1, Len(s) - 1))
           v == s[Len(s)]
           RECURSIVE Ins(_)
           Ins(r) == IF r = << >> THEN << v >>
                     ELSE IF v.x < Head(r).x THEN << v >> \o r
                          ELSE << Head(r) >> \o Ins(Tail(r))
       IN Ins(rest)

\* the y coordinates of a point list
Ys(pts) == [ i \in 1..Len(pts) |-> pts[i].y ]

\* percentile(sorted, p) with p = pct / 100, on sorted grid coordinates
percentile(sorted, pct) ==
  IF Len(sorted) = 0 THEN QZero
  ELSE LET idx100 == pct * (Len(sorted) - 1)
           l == idx100 \div 100
           t100 == idx100 % 100
       IN IF t100 = 0 THEN Coord(sorted[l + 1])
          ELSE Q(sorted[l + 1] * (100 - t100) + sorted[l + 2] * t100, 100 * Grid)

\* mean(points): the centroid, (0, 0) for an empty list
RECURSIVE SumX(_)
SumX(pts) == IF pts = << >> THEN 0 ELSE Head(pts).x + SumX(Tail(pts))
RECURSIVE SumY(_)
SumY(pts) == IF pts = << >> THEN 0 ELSE Head(pts).y + SumY(Tail(pts))
mean(pts) ==
  IF Len(pts) = 0 THEN [x |-> QZero, y |-> QZero]
  ELSE [x |-> Q(SumX(pts), Len(pts) * Grid), y |-> Q(SumY(pts), Len(pts) * Grid)]

\* subset(pts, box, rx0, rx1, ry0, ry1) with the fractions given in percent
subset(pts, box, rx0, rx1, ry0, ry1) ==
  LET In(p) == /\ 100 * p.x >= 100 * box.minX + box.width * rx0
               /\ 100 * p.x <= 100 * box.minX + box.width * rx1
               /\ 100 * p.y >= 100 * box.minY + box.height * ry0
               /\ 100 * p.y <= 100 * box.minY + box.height * ry1
  IN SelectSeq(pts, In)

\* opennessRatio(points, faceH): 15th..85th percentile spread over face height
opennessRatio(points, faceH) ==
  IF Len(points) < 4 THEN QZero
  ELSE LET ys  == SortInts(Ys(points))
           top == percentile(ys, 15)
           bot == percentile(ys, 85)
       IN clamp01Q(QDiv(QSub(bot, top), QMax(Eps, Coord(faceH))))

\* mouthOpenRatio(points, faceH): 20th..90th percentile spread over face height
mouthOpenRatio(points, faceH) ==
  IF Len(points) = 0 THEN QZero
  ELSE LET ys  == SortInts(Ys(points))
           top == percentile(ys, 20)
           bot == percentile(ys, 90)
       IN clamp01Q(QDiv(QSub(bot, top), QMax(Eps, Coord(faceH))))

\* estimateHeadPose(box, leftEye, rightEye); roll is kept as the pair
\* (dy, dx) whose Math.atan2 it is
estimateHeadPose(box, leftEye, rightEye) ==
  LET dx == QSub(rightEye.x, leftEye.x)
      dy == QSub(rightEye.y, leftEye.y)
      leftDist  == QAbs(QSub(leftEye.x, Coord(box.minX)))
      rightDist == QAbs(QSub(Coord(box.maxX), rightEye.x))
      yaw == clamp01Q(QDiv(QSub(rightDist, leftDist), QMax(Eps, Coord(box.width))))
      cy == Q(box.minY + box.maxY, 2 * Grid)
      eyesY == QDiv(QAdd(leftEye.y, rightEye.y), QInt(2))
      pitch == clamp01Q(QDiv(QSub(cy, eyesY), QMax(Eps, Coord(box.height))))
  IN [ roll  |-> [dy |-> dy, dx |-> dx],
       yaw   |-> QMax(QInt(-1), QMin(QOne, QMul(yaw, QInt(2)))),
       pitch |-> QMax(QInt(-1), QMin(QOne, QMul(pitch, QInt(2)))) ]

\* landmark with the 0-based mesh index i
Lm(lms, i) == lms[i + 1]

\* face oval indices (MediaPipe 468 mesh)
OVAL ==
  << 10, 338, 297, 332, 284, 251, 389, 356, 454, 323, 361, 288, 397, 365, 379,
     378, 400, 377, 152, 148, 176, 149, 150, 136, 172, 58, 132, 93, 234, 127,
     162, 21, 54, 103, 67, 109 >>

\* lowerJawPath(pts, box)
lowerJawPath(pts, box) ==
  IF Len(pts) >= MeshMin
  THEN LET ovalPts == [ i \in 1..Len(OVAL) |-> Lm(pts, OVAL[i]) ]
           thr == percentile(SortInts(Ys(ovalPts)), 55)
           Low(p) == QLe(thr, Coord(p.y))
       IN SelectSeq(ovalPts, Low)
  ELSE LET byY == SortByYDesc(pts)
           take == Max(12, (Len(pts) * 6) \div 100)
           candidates == SubSeq(byY, 1, Min(take, Len(byY)))
       IN SortByX(candidates)

\* mesh indices of the eye and mouth lms
L_H == << 33, 133 >>
L_V1 == << 159, 145 >>
L_V2 == << 158, 153 >>
R_H == << 263, 362 >>
R_V1 == << 386, 374 >>
R_V2 == << 385, 380 >>
M_H == << 61, 291 >>
M_V1 == << 13, 14 >>

\* dist(i, j) inside getFaceMetrics
dist(lms, i, j) ==
  Hypot(Lm(lms, i).x - Lm(lms, j).x, Lm(lms, i).y - Lm(lms, j).y)

\* index-based eye aspect ratio
EAR(lms, H, V1, V2) ==
  QDiv(QAdd(dist(lms, V1[1], V1[2]), dist(lms, V2[1], V2[2])),
       QMul(QInt(2), QMax(Eps, dist(lms, H[1], H[2]))))

\* index-based mouth aspect ratio
MAR(lms) ==
  QDiv(dist(lms, M_V1[1], M_V1[2]), QMax(Eps, dist(lms, M_H[1], M_H[2])))

PickLm(lms, idx) == [ i \in 1..Len(idx) |-> Lm(lms, idx[i]) ]

EmptyMetrics ==
  [ box   |-> [minX |-> 0, minY |-> 0, maxX |-> 0, maxY |-> 0, width |-> 0, height |-> 0],
    eyes  |-> [ left  |-> [points |-> << >>, center |-> [x |-> QZero, y |-> QZero], openness |-> QZero],
                right |-> [points |-> << >>, center |-> [x |-> QZero, y |-> QZero], openness |-> QZero] ],
    mouth |-> [points |-> << >>, center |-> [x |-> QZero, y |-> QZero], openRatio |-> QZero],
    head  |-> [roll |-> [dy |-> QZero, dx |-> QZero], yaw |-> QZero, pitch |-> QZero],
    jawline |-> [path |-> << >>] ]

\* getFaceMetrics(lms); a null argument is the empty list
getFaceMetrics(lms) ==
  IF Len(lms) = 0 THEN EmptyMetrics
  ELSE
    LET box == boundingBox(lms)
        hasMesh == Len(lms) >= MeshMin
        leftEyePts == IF hasMesh THEN PickLm(lms, L_H \o L_V1 \o L_V2)
                      ELSE subset(lms, box, 12, 46, 25, 55)
        rightEyePts == IF hasMesh THEN PickLm(lms, R_H \o R_V1 \o R_V2)
                       ELSE subset(lms, box, 54, 88, 25, 55)
        mouthPts == IF hasMesh THEN PickLm(lms, M_H \o M_V1)
                    ELSE subset(lms, box, 25, 75, 60, 100)
        leftOpen == IF hasMesh THEN EAR(lms, L_H, L_V1, L_V2)
                    ELSE opennessRatio(leftEyePts, box.height)
        rightOpen == IF hasMesh THEN EAR(lms, R_H, R_V1, R_V2)
                     ELSE opennessRatio(rightEyePts, box.height)
        mar == IF hasMesh THEN MAR(lms)
               ELSE mouthOpenRatio(mouthPts, box.height)
        leftCenter == mean(leftEyePts)
        rightCenter == mean(rightEyePts)
        mouthCenter == mean(mouthPts)
    IN [ box   |-> box,
         eyes  |-> [ left  |-> [points |-> leftEyePts, center |-> leftCenter, openness |-> leftOpen],
                     right |-> [points |-> rightEyePts, center |-> rightCenter, openness |-> rightOpen] ],
         mouth |-> [points |-> mouthPts, center |-> mouthCenter, openRatio |-> mar],
         head  |-> estimateHeadPose(box, leftCenter, rightCenter),
         jawline |-> [path |-> lowerJawPath(lms, box)] ]


\* ------------------------------------------------- geometry specification
\* number of points of a sparse landmark list
MaxPts == 6

Pt(x, y) == [x |-> x, y |-> y]

\* points a sparse list is built from: box corners, left-eye, right-eye and
\* mouth region points
Candidates ==
  << Pt(0, 0), Pt(4, 4), Pt(1, 1), Pt(1, 2), Pt(3, 1), Pt(3, 2), Pt(2, 3), Pt(2, 4) >>

\* a full mesh: every landmark at the face centre except the eye and mouth
\* landmarks, placed from the eye widths, lid gaps, mouth width and lip gap
DenseMesh(lw, lg, rw, rg, mw, mg) ==
  [ k \in 1..MeshSize |->
      LET i == k - 1 IN
      IF i = 33 THEN Pt(0, 1) ELSE IF i = 133 THEN Pt(lw, 1)
      ELSE IF i \in {159, 158} THEN Pt(1, 0) ELSE IF i \in {145, 153} THEN Pt(1, lg)
      ELSE IF i = 263 THEN Pt(4, 1) ELSE IF i = 362 THEN Pt(4 - rw, 1)
      ELSE IF i \in {386, 385} THEN Pt(3, 0) ELSE IF i \in {374, 380} THEN Pt(3, rg)
      ELSE IF i = 61 THEN Pt(1, 3) ELSE IF i = 291 THEN Pt(1 + mw, 3)
      ELSE IF i = 13 THEN Pt(2, 3) ELSE IF i = 14 THEN Pt(2, 3 + mg)
      ELSE Pt(2, 2) ]

DenseInputs ==
  { DenseMesh(lw, lg, rw, rg, mw, mg) :
      lw \in 0..2, lg \in 0..2, rw \in 1..2, rg \in 0..1, mw \in 0..2, mg \in 0..1 }

\* index in Candidates of the last point of a sparse list under construction
LastCandidate(pts) ==
  IF pts = << >> THEN 1
  ELSE CHOOSE c \in 1..Len(Candidates) : Candidates[c] = pts[Len(pts)]

InitMetrics ==
  /\ landmarks \in { << >> } \cup DenseInputs
  /\ metrics = EmptyMetrics
  /\ measured = FALSE

\* the caller grows a sparse landmark list by one point
AddLandmark ==
  /\ ~measured
  /\ Len(landmarks) < MaxPts
  /\ \E c \in LastCandidate(landmarks)..Len(Candidates) :
       landmarks' = Append(landmarks, Candidates[c])
  /\ UNCHANGED << metrics, measured >>

\* const m = getFaceMetrics(points)
Measure ==
  /\ ~measured
  /\ metrics' = getFaceMetrics(landmarks)
  /\ measured' = TRUE
  /\ UNCHANGED landmarks

\* ============================================================ processFrame
\* age limit of the colour-sample buffer (ms)
BufferMs == 20000
\* the heart rate is computed once the buffer holds more samples than this
MinSamples == 64
HRIntervalMs == 1000
RespIntervalMs == 2000
HRVIntervalMs == 5000

\* while (samples.length && samples[0].t < cutoff) samples.shift()
evict_once(buf, cutoff) ==
  IF buf # << >> /\ Head(buf).t < cutoff THEN Tail(buf) ELSE buf
evict(buf, cutoff) ==
  LET stop == { i \in 1..(Len(buf) + 1) : i = Len(buf) + 1 \/ buf[i].t >= cutoff }
      first == CHOOSE i \in stop : \A j \in stop : i <= j
  IN SubSeq(buf, first, Len(buf))

\* the three rate limits: !last || ts - last > interval
hrDue(ts, last) == last = 0 \/ ts - last > HRIntervalMs
respDue_always(ts, last) == TRUE
respDue(ts, last) == last = 0 \/ ts - last > RespIntervalMs
hrvDue(ts, last) == last = 0 \/ ts - last > HRVIntervalMs

\* a 0..1 value handed to the tracker, in fixed point
ToFixed(q) == (q.num * Unit) \div q.den

\* the faces the landmarker reports during a session: eyes open, eyes shut
OpenFace == DenseMesh(2, 1, 2, 1, 2, 0)
ShutFace == DenseMesh(2, 0, 2, 0, 2, 0)
FrameFaces == { OpenFace, ShutFace }
\* getFaceMetrics on each of them
FaceMetricsOf == [ f \in FrameFaces |-> getFaceMetrics(f) ]

\* ----------------------------------------------------- frame specification
\* the refs of the motion step before the first frame
NullRef == [isNull |-> TRUE, v |-> << >>]
Ref(v) == [isNull |-> FALSE, v |-> v]
NoMotion == [n |-> 0]
InitMotionRefs ==
  /\ prevPointsRef = NullRef
  /\ prevAnchorsRef = NullRef
  /\ motionNow = QZero
  /\ motionSeen = NoMotion

\* the component right after mounting: the effect has started its async body
InitMounted ==
  /\ initPc = "getUserMedia"
  /\ active = TRUE
  /\ mounted = TRUE
  /\ tracks = "none"
  /\ srcObject = "null"
  /\ streaming = FALSE
  /\ rafRef = 0
  /\ scheduled = {}
  /\ handles = 0
  /\ presses = [n |-> 0]
\* number of animation frames explored
MaxFrames == 92
\* frames that deviate from the regular cadence
MaxIrregular == 1
\* the first frames of a session are regular
WarmupFrames == 58
\* regular time between two animation frames (ms)
FramePeriod == 250

\* one animation frame: time since the previous frame, whether a face was
\* found, the face, the delays before the two later performance.now() reads
RegularFrame ==
  [ gap |-> FramePeriod, found |-> TRUE, face |-> OpenFace, d1 |-> 0, d2 |-> 0, g |-> 128 ]
IrregularFrames ==
  { [ RegularFrame EXCEPT !.found = FALSE ],
    [ RegularFrame EXCEPT !.gap = 2500 ],
    [ RegularFrame EXCEPT !.gap = BufferMs + FramePeriod ],
    [ RegularFrame EXCEPT !.d1 = 7, !.d2 = 1 ],
    [ RegularFrame EXCEPT !.face = ShutFace ] }

NoFrame ==
  [ n |-> 0, irregular |-> 0, ts |-> 0, sampled |-> FALSE, evicted |-> 0,
    hr |-> FALSE, resp |-> FALSE, hrv |-> FALSE ]

InitFrame ==
  /\ samples = << >>
  /\ clock = 0
  /\ lastHRCompute = 0
  /\ lastRespCompute = 0
  /\ lastHRVCompute = 0
  /\ frame = NoFrame
  /\ hrLog = << >>
  /\ respLog = << >>
  /\ hrvLog = << >>
  /\ InitMotionRefs
  /\ InitMounted

\* processFrame() for one input, with the landmarker and the canvases ready
ProcessFrame(inp, irregular) ==
  LET ts == clock + inp.gap
  IN IF ~inp.found
     THEN \* no face: nothing but the overlay is touched
          /\ clock' = ts
          /\ frame' = [ n |-> frame.n + 1, irregular |-> irregular, ts |-> ts,
                        sampled |-> FALSE, evicted |-> 0,
                        hr |-> FALSE, resp |-> FALSE, hrv |-> FALSE ]
          /\ UNCHANGED << samples, lastHRCompute, lastRespCompute, lastHRVCompute,
                          hrLog, respLog, hrvLog, state, snap, now >>
     ELSE LET m == FaceMetricsOf[inp.face]
              r == update(state, ToFixed(m.eyes.left.openness),
                          ToFixed(m.eyes.right.openness), ToFixed(m.mouth.openRatio), ts)
              tPush  == ts + inp.d1
              tCut   == tPush + inp.d2
              pushed == Append(samples, [t |-> tPush, g |-> inp.g])
              kept   == evict(pushed, tCut - BufferMs)
              hr   == Len(kept) > MinSamples /\ hrDue(ts, lastHRCompute)
              resp == hr /\ respDue(ts, lastRespCompute)
              hrv  == hr /\ hrvDue(ts, lastHRVCompute)
          IN /\ state' = r.state
             /\ snap' = r.snap
             /\ now' = ts
             /\ samples' = kept
             /\ clock' = tCut
             /\ lastHRCompute' = IF hr THEN ts ELSE lastHRCompute
             /\ lastRespCompute' = IF resp THEN ts ELSE lastRespCompute
             /\ lastHRVCompute' = IF hrv THEN ts ELSE lastHRVCompute
             /\ hrLog' = IF hr THEN Append(hrLog, ts) ELSE hrLog
             /\ respLog' = IF resp THEN Append(respLog, ts) ELSE respLog
             /\ hrvLog' = IF hrv THEN Append(hrvLog, ts) ELSE hrvLog
             /\ frame' = [ n |-> frame.n + 1, irregular |-> irregular, ts |-> ts,
                           sampled |-> TRUE, evicted |-> Len(pushed) - Len(kept),
                           hr |-> hr, resp |-> resp, hrv |-> hrv ]

\* a frame at the regular cadence
Tick ==
  /\ frame.n < MaxFrames
  /\ ProcessFrame(RegularFrame, frame.irregular)

\* a frame that deviates from it
IrregularTick ==
  /\ frame.n < MaxFrames
  /\ frame.n >= WarmupFrames
  /\ frame.irregular < MaxIrregular
  /\ \E inp \in IrregularFrames : ProcessFrame(inp, frame.irregular + 1)

\* ======================================================= computeHeartRate
\* A JavaScript number that may be non-finite: a finite value v, NaN or an
\* infinity.  Finite timestamps are whole milliseconds; rounding is not modelled.
Num(v) == [cls |-> "num", v |-> v]
NaN == [cls |-> "nan", v |-> 0]
PosInf == [cls |-> "inf", v |-> 0]
NegInf == [cls |-> "ninf", v |-> 0]
isFinite(a) == a.cls = "num"
FNeg(a) ==
  IF a.cls = "num" THEN Num(-a.v)
  ELSE IF a.cls = "inf" THEN NegInf ELSE IF a.cls = "ninf" THEN PosInf ELSE NaN
FAdd(a, b) ==
  IF a.cls = "nan" \/ b.cls = "nan" THEN NaN
  ELSE IF a.cls = "num" /\ b.cls = "num" THEN Num(a.v + b.v)
  ELSE IF a.cls = "num" THEN b
  ELSE IF b.cls = "num" THEN a
  ELSE IF a.cls = b.cls THEN a ELSE NaN
FSub(a, b) == FAdd(a, FNeg(b))

\* sum of samples[i].t - samples[i - 1].t for i in lo..hi, in milliseconds
\* (the addition above is associative, so the sum is split in halves)
RECURSIVE SumDts(_, _, _)
SumDts(smp, lo, hi) ==
  IF lo > hi THEN Num(0)
  ELSE IF lo = hi THEN FSub(smp[lo + 1].t, smp[lo].t)
  ELSE LET mid == (lo + hi) \div 2
       IN FAdd(SumDts(smp, lo, mid), SumDts(smp, mid + 1, hi))

\* fewest samples computeHeartRate works on
HRMinSamples == 64
\* default band of computeHeartRate, beats per minute
DefaultMinBpm == 42
DefaultMaxBpm == 180

\* samples.length < 64
hasTooFewSamples_off(n) == n < HRMinSamples - 1
hasTooFewSamples(n) == n < HRMinSamples

\* 1 << (32 - Math.clz32(n - 1)) for 2 <= n: the least power of two >= n
RECURSIVE Pow2From(_, _)
Pow2From(p, n) == IF p >= n THEN p ELSE Pow2From(2 * p, n)
nearestPow2(n) == Pow2From(1, n)

QFloor(q) == q.num \div q.den
QCeil(q) == -((-q.num) \div q.den)
\* a null number in a result
NullQ == [num |-> 0, den |-> 0]

NullHR == [bpm |-> NullQ, confidence |-> QZero, sampleRate |-> NullQ, windowSeconds |-> QZero]

\* sum of mags[lo..hi] (bins counted from 0)
RECURSIVE SumMags(_, _, _)
SumMags(mags, lo, hi) ==
  IF lo > hi THEN 0
  ELSE IF lo = hi THEN mags[lo + 1]
  ELSE LET mid == (lo + hi) \div 2
       IN SumMags(mags, lo, mid) + SumMags(mags, mid + 1, hi)

\* the peak search: first bin of the band holding the largest magnitude > 0
PeakBin(mags, minBin, maxBin) ==
  LET band == { i \in minBin..maxBin : mags[i + 1] > 0 }
  IN IF band = {} THEN -1
     ELSE CHOOSE i \in band :
            \A j \in band : mags[j + 1] < mags[i + 1] \/ (mags[j + 1] = mags[i + 1] /\ i <= j)

\* the confidence: peak magnitude over the mean magnitude of the band,
\* clamped to [0, 1]; 0 when the band energy is 0
confidenceOf_overEnergy(peakVal, bandEnergy, bins) ==
  QMax(QZero, QMin(QOne, IF bandEnergy # 0 THEN Q(peakVal, bandEnergy) ELSE QZero))
confidenceOf(peakVal, bandEnergy, bins) ==
  QMax(QZero, QMin(QOne, IF bandEnergy # 0 THEN Q(peakVal * bins, bandEnergy) ELSE QZero))

\* computeHeartRate(samples, {minBpm, maxBpm}); mags is the magnitude spectrum
\* the FFT library returns for the detrended, windowed, zero-padded signal
computeHeartRate(smp, minBpm, maxBpm, mags) ==
  IF hasTooFewSamples(Len(smp)) THEN NullHR
  ELSE LET sumDt == SumDts(smp, 1, Len(smp) - 1)
       IN IF ~isFinite(sumDt) \/ sumDt.v <= 0 THEN NullHR
          ELSE LET avgDt == Q(sumDt.v, 1000 * (Len(smp) - 1))
                   fs == QDiv(QOne, avgDt)
                   N == nearestPow2(Len(smp))
                   binToHz == QDiv(fs, QInt(N))
                   minBin == Max(1, QFloor(QDiv(Q(minBpm, 60), binToHz)))
                   maxBin == Min(N \div 2 - 1, QCeil(QDiv(Q(maxBpm, 60), binToHz)))
                   peakBin == PeakBin(mags, minBin, maxBin)
                   window == QDiv(QInt(Len(smp)), fs)
               IN IF peakBin < 0
                  THEN [bpm |-> NullQ, confidence |-> QZero, sampleRate |-> fs,
                        windowSeconds |-> window]
                  ELSE LET peakVal == mags[peakBin + 1]
                           bandEnergy == SumMags(mags, minBin, maxBin)
                       IN [bpm |-> QMul(QMul(QInt(peakBin), binToHz), QInt(60)),
                           confidence |-> confidenceOf(peakVal, bandEnergy, maxBin - minBin + 1),
                           sampleRate |-> fs, windowSeconds |-> window]

\* estimateRespirationRate(samples, {minBpm, maxBpm}); mags is the magnitude
\* spectrum the FFT library returns for the detrended, zero-padded signal
DefaultRespMinBpm == 6
DefaultRespMaxBpm == 30
estimateRespirationRate(smp, minBpm, maxBpm, mags) ==
  IF Len(smp) < HRMinSamples THEN NullHR
  ELSE LET sumDt == SumDts(smp, 1, Len(smp) - 1)
       IN IF ~isFinite(sumDt) \/ sumDt.v <= 0 THEN NullHR
          ELSE LET dt == Q(sumDt.v, 1000 * (Len(smp) - 1))
                   fs == QDiv(QOne, dt)
                   N == nearestPow2(Len(smp))
                   binToHz == QDiv(fs, QInt(N))
                   minBin == Max(1, QFloor(QDiv(Q(minBpm, 60), binToHz)))
                   maxBin == Min(N \div 2 - 1, QCeil(QDiv(Q(maxBpm, 60), binToHz)))
                   peakBin == PeakBin(mags, minBin, maxBin)
                   window == QDiv(QInt(Len(smp)), fs)
               IN IF peakBin < 0
                  THEN [bpm |-> NullQ, confidence |-> QZero, sampleRate |-> fs,
                        windowSeconds |-> window]
                  ELSE LET peakVal == mags[peakBin + 1]
                           bandEnergy == SumMags(mags, minBin, maxBin)
                           hz == QMul(QInt(peakBin), binToHz)
                       IN [bpm |-> QMul(hz, QInt(60)),
                           confidence |-> confidenceOf(peakVal, bandEnergy, maxBin - minBin + 1),
                           sampleRate |-> fs, windowSeconds |-> window]

\* -------------------------------------------------- heart-rate specification
\* samples appended to a starting buffer
MaxAppend == 3

\* n samples, one every step milliseconds
RegularBuffer(n, step) == [ i \in 1..n |-> [t |-> Num(1000 + step * (i - 1)), g |-> 128] ]
BaseBuffers ==
  { RegularBuffer(n, step) : n \in {0, 1, HRMinSamples - 2, HRMinSamples - 1}, step \in {-33, 0, 33} }
\* timestamp steps of an appended sample
StepInputs == { Num(33), Num(0), Num(-5000), NaN, PosInf, NegInf }

\* magnitude spectra of N / 2 bins: flat, or flat with one peak
Spectra(N) ==
  { [ i \in 1..(N \div 2) |-> IF i - 1 = k THEN v ELSE f ] :
      k \in {0, 2, 5, N \div 2 - 1}, f \in {0, 1}, v \in {0, 3} }

NoCall == [fn |-> "none"]
InitCallIdle == args = NoCall /\ result = NoCall /\ returned = FALSE

InitHR ==
  /\ args \in { [fn |-> "computeHeartRate", samples |-> b, appended |-> 0, mags |-> << >>] :
                  b \in BaseBuffers }
  /\ result = NoCall
  /\ returned = FALSE

\* the caller pushes one more sample
AppendSample ==
  /\ ~returned
  /\ args.appended < MaxAppend
  /\ \E dt \in StepInputs :
       LET last == IF args.samples = << >> THEN Num(1000)
                   ELSE args.samples[Len(args.samples)].t
       IN args' = [ args EXCEPT !.samples = Append(@, [t |-> FAdd(last, dt), g |-> 128]),
                                !.appended = @ + 1 ]
  /\ UNCHANGED << result, returned >>

\* computeHeartRate(samples) with the default band; the spectrum the call
\* worked on is kept next to the arguments (observation only)
ComputeHR ==
  /\ ~returned
  /\ \E mags \in Spectra(nearestPow2(Max(2, Len(args.samples)))) :
       /\ result' = computeHeartRate(args.samples, DefaultMinBpm, DefaultMaxBpm, mags)
       /\ args' = [ args EXCEPT !.mags = mags ]
  /\ returned' = TRUE

\* estimateRespirationRate(samples) with the default band
ComputeResp ==
  /\ ~returned
  /\ \E mags \in Spectra(nearestPow2(Max(2, Len(args.samples)))) :
       /\ result' = estimateRespirationRate(args.samples, DefaultRespMinBpm,
                                            DefaultRespMaxBpm, mags)
       /\ args' = [ args EXCEPT !.fn = "estimateRespirationRate", !.mags = mags ]
  /\ returned' = TRUE

\* =================================================== estimateSimilarity2D
\* pivots smaller than this are skipped (1e-8)
PivotEps == Q(1, 100000000)
IdentityTransform_double == << QInt(2), QZero, QZero, QInt(2), QZero, QZero >>
IdentityTransform == << QOne, QZero, QZero, QOne, QZero, QZero >>

\* the augmented 6 x 7 system [A | b] of three correspondences
BuildSystem(src, dst) ==
  LET rowX(i) == << src[i].x, src[i].y, QZero, QZero, QOne, QZero, dst[i].x >>
      rowY(i) == << QZero, QZero, src[i].x, src[i].y, QZero, QOne, dst[i].y >>
  IN << rowX(1), rowY(1), rowX(2), rowY(2), rowX(3), rowY(3) >>

\* the pivot test of one elimination step
isNegligible(v) == QLt(QAbs(v), PivotEps)

\* one column of the Gauss-Jordan elimination (rows and columns from 1)
EliminateColumn(M, col) ==
  LET rows == col..6
      \* first row holding the largest magnitude in this column
      pivot == CHOOSE r \in rows :
                 \A q \in rows : \/ QLt(QAbs(M[q][col]), QAbs(M[r][col]))
                                 \/ (QAbs(M[q][col]) = QAbs(M[r][col]) /\ r <= q)
  IN IF isNegligible(M[pivot][col]) THEN M
     ELSE LET S == [ r \in 1..6 |-> IF r = col THEN M[pivot]
                                   ELSE IF r = pivot THEN M[col] ELSE M[r] ]
              div == S[col][col]
              prow == [ c \in 1..7 |-> IF c >= col THEN QDiv(S[col][c], div) ELSE S[col][c] ]
          IN [ r \in 1..6 |->
                 IF r = col THEN prow
                 ELSE [ c \in 1..7 |->
                          IF c >= col THEN QSub(S[r][c], QMul(S[r][col], prow[c]))
                          ELSE S[r][c] ] ]

RECURSIVE Eliminate(_, _)
Eliminate(M, col) == IF col > 6 THEN M ELSE Eliminate(EliminateColumn(M, col), col + 1)

hasTooFewPoints(src, dst) == Len(src) < 3 \/ Len(dst) < 3

estimateSimilarity2D(src, dst) ==
  IF hasTooFewPoints(src, dst) THEN IdentityTransform
  ELSE LET M == Eliminate(BuildSystem(src, dst), 1)
       IN << M[1][7], M[2][7], M[3][7], M[4][7], M[5][7], M[6][7] >>

\* ---------------------------------------------------- solver specification
\* correspondences given on each side
MaxCorr == 3
\* coordinates are whole multiples of a scale: 1, or 2^-27 (about 7.5e-9)
TinyDen == 134217728
Scales == { QOne, Q(1, TinyDen) }
SrcPoints == { Pt(0, 0), Pt(1, 0), Pt(0, 1), Pt(1, 1) }
DstPoints == { Pt(0, 0), Pt(2, 3) }
Scaled(p, sc) == [x |-> QMul(QInt(p.x), sc), y |-> QMul(QInt(p.y), sc)]
ScaledList(pts, sc) == [ i \in DOMAIN pts |-> Scaled(pts[i], sc) ]

InitSolver ==
  /\ args \in { [fn |-> "estimateSimilarity2D", scale |-> sc, src |-> << >>, dst |-> << >>] :
                sc \in Scales }
  /\ result = NoCall
  /\ returned = FALSE

AddSrc ==
  /\ ~returned /\ Len(args.src) < MaxCorr
  /\ \E p \in SrcPoints : args' = [ args EXCEPT !.src = Append(@, p) ]
  /\ UNCHANGED << result, returned >>

\* a destination point: the matching source point, or another point
AddDst ==
  /\ ~returned /\ Len(args.dst) < MaxCorr
  /\ \E p \in DstPoints \cup { args.src[i] : i \in { Len(args.dst) + 1 } \cap DOMAIN args.src } :
       args' = [ args EXCEPT !.dst = Append(@, p) ]
  /\ UNCHANGED << result, returned >>

Solve ==
  /\ ~returned
  /\ result' = estimateSimilarity2D(ScaledList(args.src, args.scale),
                                     ScaledList(args.dst, args.scale))
  /\ returned' = TRUE
  /\ UNCHANGED args

\* ================================================================ smoothing
\* a point with exact rational coordinates
QPt(x, y) == [x |-> x, y |-> y]
\* 0.75 * p + 0.25 * q, coordinate by coordinate
Blend(p, q) ==
  QPt(QAdd(QMul(Q(3, 4), p.x), QMul(Q(1, 4), q.x)),
      QAdd(QMul(Q(3, 4), p.y), QMul(Q(1, 4), q.y)))

\* points.length < 3
isShortPath(pts) == Len(pts) < 3

\* one corner-cutting pass: first point, two points per segment, last point
ChaikinStep_open(pts) ==
  [ j \in 1..(2 * Len(pts) - 2) |->
      IF j % 2 = 1 THEN Blend(pts[(j + 1) \div 2], pts[(j + 1) \div 2 + 1])
      ELSE Blend(pts[j \div 2 + 1], pts[j \div 2]) ]
ChaikinStep(pts) ==
  [ j \in 1..(2 * Len(pts)) |->
      IF j = 1 THEN pts[1]
      ELSE IF j = 2 * Len(pts) THEN pts[Len(pts)]
      ELSE IF j % 2 = 0 THEN Blend(pts[j \div 2], pts[j \div 2 + 1])
      ELSE Blend(pts[j \div 2 + 1], pts[j \div 2]) ]

\* number of passes of for (it = 0; it < iterations; it++)
ChaikinRounds_atLeastOnce(iterations) == Max(1, iterations)
ChaikinRounds(iterations) == Max(0, iterations)

RECURSIVE ChaikinLoop(_, _)
ChaikinLoop(pts, rounds) ==
  IF rounds = 0 THEN pts ELSE ChaikinLoop(ChaikinStep(pts), rounds - 1)

smoothChaikin(points, iterations) ==
  IF isShortPath(points) THEN points
  ELSE ChaikinLoop(points, ChaikinRounds(iterations))

\* windowSize | 0 for a window size within the 32-bit range: the fraction is
\* dropped, towards zero
ToInt32(q) == IF q.num >= 0 THEN q.num \div q.den ELSE -((-q.num) \div q.den)

\* [-2, 3, 6, 7, 6, 3, -2].map(c => c / 21)
SGCoeff_raw == << QInt(-2), QInt(3), QInt(6), QInt(7), QInt(6), QInt(3), QInt(-2) >>
SGCoeff == << Q(-2, 21), Q(3, 21), Q(6, 21), Q(7, 21), Q(6, 21), Q(3, 21), Q(-2, 21) >>

\* w === 7
isKernelWindow_fiveToo(w) == w \in {5, 7}
isKernelWindow(w) == w = 7

\* pad(i) = max(0, min(n - 1, i)), for indices counted from 0
pad(i, n) == Max(0, Min(n - 1, i))

\* the weighted sum of the seven samples around index i (from 0)
RECURSIVE SGSum(_, _, _)
SGSum(points, i, k) ==
  IF k > 3 THEN QZero
  ELSE QAdd(QMul(points[pad(i + k, Len(points)) + 1].y, SGCoeff[k + 4]), SGSum(points, i, k + 1))

savitzkyGolay(points, windowSize) ==
  IF isShortPath(points) THEN points
  ELSE IF ~isKernelWindow(ToInt32(windowSize)) THEN points
  ELSE [ j \in 1..Len(points) |-> QPt(points[j].x, SGSum(points, j - 1, -3)) ]

\* ------------------------------------------------- smoothing specification
\* points of a path
MaxPathLen == 7
\* passes of corner cutting
MaxIterations == 2
PathPoints == { QPt(QInt(0), QInt(0)), QPt(QInt(1), QInt(3)), QPt(QInt(2), QInt(3)) }
WindowInputs == { QInt(0), QInt(5), QInt(7), Q(15, 2), QInt(8), QInt(-7) }

InitPath ==
  /\ args = [fn |-> "path", points |-> << >>, given |-> << >>, param |-> QZero]
  /\ result = NoCall
  /\ returned = FALSE

AddPoint ==
  /\ ~returned /\ Len(args.points) < MaxPathLen
  /\ \E p \in PathPoints :
       args' = [ args EXCEPT !.points = Append(@, p), !.given = Append(@, p) ]
  /\ UNCHANGED << result, returned >>

\* smoothChaikin(points, it): the caller's array is only read
CallChaikin ==
  /\ ~returned
  /\ \E it \in 0..MaxIterations :
       /\ result' = smoothChaikin(args.points, it)
       /\ args' = [ args EXCEPT !.fn = "smoothChaikin", !.param = QInt(it) ]
  /\ returned' = TRUE

\* savitzkyGolay(points, w): the caller's array is only read
CallSavitzkyGolay ==
  /\ ~returned
  /\ \E w \in WindowInputs :
       /\ result' = savitzkyGolay(args.points, w)
       /\ args' = [ args EXCEPT !.fn = "savitzkyGolay", !.param = w ]
  /\ returned' = TRUE

\* ============================================================= estimateHRV
\* fewest samples estimateHRV works on
HRVMinSamples == 128

\* a number that may be null; sq is its square where the code takes a root
NullNum == [null |-> TRUE, v |-> QZero]
SomeNum(q) == [null |-> FALSE, v |-> q]

RECURSIVE SumSeq(_, _, _)
SumSeq(xs, lo, hi) ==
  IF lo > hi THEN 0
  ELSE IF lo = hi THEN xs[lo]
  ELSE LET mid == (lo + hi) \div 2 IN SumSeq(xs, lo, mid) + SumSeq(xs, mid + 1, hi)
SumAll(xs) == SumSeq(xs, 1, Len(xs))
Squares(xs) == [ i \in DOMAIN xs |-> xs[i] * xs[i] ]
\* mean(arr) and the square of std(arr), for integer entries
MeanOf(xs) == IF Len(xs) = 0 THEN QZero ELSE Q(SumAll(xs), Len(xs))
VarOf(xs) ==
  IF Len(xs) = 0 THEN QZero
  ELSE Q(Len(xs) * SumAll(Squares(xs)) - SumAll(xs) * SumAll(xs), Len(xs) * Len(xs))

\* smoothed[i] > mu + sd * 0.3, with mu and sd the mean and the standard
\* deviation of smoothed: x - mu > 0 and (x - mu)^2 > 0.09 * sd^2
\* (st holds the length, the sum and the sum of squares of smoothed)
SignalStats(sm) == [n |-> Len(sm), S |-> SumAll(sm), SS |-> SumAll(Squares(sm))]
aboveThreshold(st, x) ==
  /\ st.n * x - st.S > 0
  /\ 100 * (st.n * x - st.S) * (st.n * x - st.S) > 9 * (st.n * st.SS - st.S * st.S)

\* the peak test at index i (from 0), 1 <= i <= n - 2
isPeak_strictBoth(sm, st, i) ==
  /\ aboveThreshold(st, sm[i + 1])
  /\ sm[i + 1] > sm[i]
  /\ sm[i + 1] > sm[i + 2]
isPeak(sm, st, i) ==
  /\ aboveThreshold(st, sm[i + 1])
  /\ sm[i + 1] >= sm[i]
  /\ sm[i + 1] > sm[i + 2]

\* peakIdxs, in increasing order
peakIdxs(sm) ==
  LET st == SignalStats(sm)
  IN SelectSeq([ i \in 1..Max(0, Len(sm) - 2) |-> i ], LAMBDA i : isPeak(sm, st, i))

\* peakIdxs.length < 3
hasTooFewPeaks_four(k) == k < 4
hasTooFewPeaks(k) == k < 3

\* estimateHRV(samples); smoothed is the detrended, averaged signal the peak
\* search runs on, rmssd and sdnn are carried as their squares
estimateHRV(smp, smoothed) ==
  IF Len(smp) < HRVMinSamples
  THEN [rmssd |-> NullNum, sdnn |-> NullNum, ibiMs |-> NullNum, beats |-> 0]
  ELSE LET peaks == peakIdxs(smoothed)
       IN IF hasTooFewPeaks(Len(peaks))
          THEN [rmssd |-> NullNum, sdnn |-> NullNum, ibiMs |-> NullNum, beats |-> Len(peaks)]
          ELSE LET ibis == [ i \in 1..(Len(peaks) - 1) |->
                               smp[peaks[i + 1] + 1].t - smp[peaks[i] + 1].t ]
                   diffs == [ i \in 1..(Len(ibis) - 1) |-> ibis[i + 1] - ibis[i] ]
               IN [rmssd |-> IF Len(diffs) > 0 THEN SomeNum(MeanOf(Squares(diffs))) ELSE NullNum,
                   sdnn |-> IF Len(ibis) > 0 THEN SomeNum(VarOf(ibis)) ELSE NullNum,
                   ibiMs |-> IF Len(ibis) > 0 THEN SomeNum(MeanOf(ibis)) ELSE NullNum,
                   beats |-> Len(peaks)]

\* ------------------------------------------------------ HRV specification
\* bumps of the smoothed signal
MaxBumps == 4
\* sample counts tried
CountInputs == { HRVMinSamples - 1, HRVMinSamples, HRVMinSamples + 1 }
\* where a bump may sit (index from 0) and how high it is
BumpAt(n) == { 0, 1, 10, 11, 40, n - 2, n - 1 }
BumpHeights == { -1, 1, 3 }

\* n samples, the i-th at 1000 + 33 * i + (i mod 3) milliseconds
HRVSamples(n) == [ i \in 1..n |-> [t |-> 1000 + 33 * (i - 1) + ((i - 1) % 3), g |-> 128] ]
\* the smoothed signal: zero except at the bumps
SmoothedOf(n, bumps) ==
  [ i \in 1..n |->
      IF \E b \in DOMAIN bumps : bumps[b].at = i - 1
      THEN bumps[CHOOSE b \in DOMAIN bumps : bumps[b].at = i - 1].h
      ELSE 0 ]

InitHRVCall ==
  /\ args \in { [fn |-> "estimateHRV", n |-> n, bumps |-> << >>, peakIdxs |-> << >>] :
                  n \in CountInputs }
  /\ result = NoCall
  /\ returned = FALSE

\* one more bump, to the right of the ones there are
AddBump ==
  /\ ~returned /\ Len(args.bumps) < MaxBumps
  /\ \E at \in BumpAt(args.n), h \in BumpHeights :
       /\ args.bumps # << >> => at > args.bumps[Len(args.bumps)].at
       /\ args' = [ args EXCEPT !.bumps = Append(@, [at |-> at, h |-> h]) ]
  /\ UNCHANGED << result, returned >>

\* const hrv = estimateHRV(samples); the function's local peakIdxs is kept
\* next to the arguments (observation only; empty below 128 samples, where
\* the function returns before the search)
CallHRV ==
  /\ ~returned
  /\ result' = estimateHRV(HRVSamples(args.n), SmoothedOf(args.n, args.bumps))
  /\ args' = [ args EXCEPT !.peakIdxs =
                 IF args.n < HRVMinSamples THEN << >>
                 ELSE peakIdxs(SmoothedOf(args.n, args.bumps)) ]
  /\ returned' = TRUE

\* ================================================= estimateFacialAdiposity
\* landmarks here have whole-number coordinates

\* boundingBox of facialFat, for a non-empty list
fatBox(pts) ==
  LET xs == { pts[i].x : i \in DOMAIN pts }
      ys == { pts[i].y : i \in DOMAIN pts }
  IN [minX |-> SetMin(xs), minY |-> SetMin(ys), maxX |-> SetMax(xs), maxY |-> SetMax(ys),
      width |-> SetMax(xs) - SetMin(xs), height |-> SetMax(ys) - SetMin(ys)]

\* Math.max(0, Math.min(1, (v - lo) / (hi - lo)))
Normalize(v, lo, hi) == QMax(QZero, QMin(QOne, QDiv(QSub(v, lo), QSub(hi, lo))))

RECURSIVE SumLateral(_, _)
SumLateral(pts, cx) ==
  IF pts = << >> THEN QZero
  ELSE QAdd(QAbs(QSub(QInt(Head(pts).x), cx)), SumLateral(Tail(pts), cx))

\* fullnessIndex < 0.33 ? "low" : fullnessIndex < 0.66 ? "medium" : "high"
categoryOf_half(f) ==
  IF QLt(f, Q(50, 100)) THEN "low" ELSE IF QLt(f, Q(66, 100)) THEN "medium" ELSE "high"
categoryOf(f) ==
  IF QLt(f, Q(33, 100)) THEN "low" ELSE IF QLt(f, Q(66, 100)) THEN "medium" ELSE "high"

EmptyFat ==
  [fullnessIndex |-> QZero, category |-> "low",
   details |-> [widthHeightRatio |-> QZero, cheekPlumpness |-> QZero, jawTaper |-> QZero]]

estimateFacialAdiposity(lms) ==
  IF Len(lms) = 0 THEN EmptyFat
  ELSE LET box == fatBox(lms)
           widthHeightRatio == QDiv(QInt(box.width), QMax(Eps, QInt(box.height)))
           midYTop == QAdd(QInt(box.minY), QMul(QInt(box.height), Q(35, 100)))
           midYBot == QAdd(QInt(box.minY), QMul(QInt(box.height), Q(65, 100)))
           slice == SelectSeq(lms, LAMBDA p : QLe(midYTop, QInt(p.y)) /\ QLe(QInt(p.y), midYBot))
           cx == Q(box.minX + box.maxX, 2)
           lateral == SumLateral(slice, cx)
           cheekPlumpness ==
             IF Len(slice) > 0
             THEN QDiv(QDiv(lateral, QInt(Len(slice))), QMax(Eps, Q(box.width, 2)))
             ELSE QZero
           upperSlice == SelectSeq(lms, LAMBDA p :
                           QLe(QInt(p.y), QAdd(QInt(box.minY), QMul(QInt(box.height), Q(33, 100)))))
           lowerSlice == SelectSeq(lms, LAMBDA p :
                           QLe(QAdd(QInt(box.minY), QMul(QInt(box.height), Q(66, 100))), QInt(p.y)))
           upperBox == IF Len(upperSlice) > 0 THEN fatBox(upperSlice) ELSE box
           lowerBox == IF Len(lowerSlice) > 0 THEN fatBox(lowerSlice) ELSE box
           jawTaper == QDiv(QInt(lowerBox.width), QMax(Eps, QInt(upperBox.width)))
           rWidth == Normalize(widthHeightRatio, Q(7, 10), Q(13, 10))
           rCheek == Normalize(cheekPlumpness, Q(18, 100), Q(38, 100))
           rJaw == Normalize(jawTaper, Q(8, 10), Q(12, 10))
           fullnessIndex ==
             QMax(QZero, QMin(QOne, QAdd(QAdd(QMul(Q(45, 100), rWidth), QMul(Q(35, 100), rCheek)),
                                         QMul(Q(2, 10), rJaw))))
       IN [fullnessIndex |-> fullnessIndex, category |-> categoryOf(fullnessIndex),
           details |-> [widthHeightRatio |-> widthHeightRatio,
                        cheekPlumpness |-> cheekPlumpness, jawTaper |-> jawTaper]]

\* ------------------------------------------------- adiposity specification
\* landmarks in a list
MaxFacePts == 5
FaceCandidates ==
  << Pt(0, 0), Pt(2, 0), Pt(4, 0), Pt(0, 2), Pt(1, 2), Pt(2, 2), Pt(4, 2),
     Pt(1, 4), Pt(2, 4), Pt(3, 4), Pt(4, 5) >>

InitFat ==
  /\ args = [fn |-> "estimateFacialAdiposity", landmarks |-> << >>, last |-> 1]
  /\ result = NoCall
  /\ returned = FALSE

\* one more landmark, no earlier in FaceCandidates than the last one
AddFacePoint ==
  /\ ~returned /\ Len(args.landmarks) < MaxFacePts
  /\ \E c \in args.last..Len(FaceCandidates) :
       args' = [ args EXCEPT !.landmarks = Append(@, FaceCandidates[c]), !.last = c ]
  /\ UNCHANGED << result, returned >>

CallFat ==
  /\ ~returned
  /\ result' = estimateFacialAdiposity(args.landmarks)
  /\ returned' = TRUE
  /\ UNCHANGED args

\* ============================================================ two trackers
\* createInsightsTracker(): the closure it returns holds a state object of
\* its own, created by the call
newTracker_shared(hp, w) ==
  IF hp = << >> THEN [heap |-> << createInsightsTracker(w) >>, handle |-> 1]
  ELSE [heap |-> hp, handle |-> 1]
newTracker(hp, w) ==
  [heap |-> Append(hp, createInsightsTracker(w)), handle |-> Len(hp) + 1]

\* updates made on the two trackers together
MaxSessionUpdates == 4
SessionEarInputs == { (5 * Unit) \div 100, (30 * Unit) \div 100 }
SessionDtInputs == { BlinkMinMs, BlinkMaxMs + 100 }

InitSessionsIdle ==
  /\ heap = << >>
  /\ trackerA = 0 /\ trackerB = 0
  /\ snapA = NoSnapshot /\ snapB = NoSnapshot
  /\ calls = 0

\* two createInsightsTracker() calls
InitSessions ==
  LET a == newTracker(<< >>, DefaultWindowMs)
      b == newTracker(a.heap, DefaultWindowMs)
  IN /\ heap = b.heap
     /\ trackerA = a.handle /\ trackerB = b.handle
     /\ snapA = NoSnapshot /\ snapB = NoSnapshot
     /\ calls = 0

\* A.update(...); the same update is also run on the tracker that is alone
UpdateA ==
  /\ calls < MaxSessionUpdates
  /\ \E ear \in SessionEarInputs, dt \in SessionDtInputs :
       LET t == now + dt
           r == update(heap[trackerA], ear, ear, 0, t)
           alone == update(state, ear, ear, 0, t)
       IN /\ heap' = [ heap EXCEPT ![trackerA] = r.state ]
          /\ snapA' = r.snap
          /\ state' = alone.state
          /\ snap' = alone.snap
          /\ now' = t
  /\ calls' = calls + 1
  /\ UNCHANGED << trackerA, trackerB, snapB, trace >>

\* B.update(...)
UpdateB ==
  /\ calls < MaxSessionUpdates
  /\ \E ear \in SessionEarInputs, dt \in SessionDtInputs :
       LET t == now + dt
           r == update(heap[trackerB], ear, ear, 0, t)
       IN /\ heap' = [ heap EXCEPT ![trackerB] = r.state ]
          /\ snapB' = r.snap
          /\ now' = t
  /\ calls' = calls + 1
  /\ UNCHANGED << trackerA, trackerB, snapA, state, snap, trace >>

\* ============================================================ facial motion
\* Points are in canvas pixels.  The value carried as motionNow is the square
\* of the code's rms, (sum / n) / max(1, box.h)^2; it is 0 exactly when the
\* rms is.
\* the centroid of a pixel point list: mean() behind m.eyes.*.center and
\* m.mouth.center, scaled to the canvas
meanPx(pts) ==
  LET n == Len(pts)
      sx == [ i \in 1..n |-> pts[i].x ]
      sy == [ i \in 1..n |-> pts[i].y ]
      Sum[k \in 0..n] == IF k = 0 THEN << QZero, QZero >>
                         ELSE << QAdd(Sum[k - 1][1], sx[k]), QAdd(Sum[k - 1][2], sy[k]) >>
  IN IF n = 0 THEN [x |-> QZero, y |-> QZero]
     ELSE [x |-> QDiv(Sum[n][1], QInt(n)), y |-> QDiv(Sum[n][2], QInt(n))]

\* the landmark groups of the model face: two per eye, two for the mouth
LeftEyeIdx == << 1, 2 >>
RightEyeIdx == << 3, 4 >>
MouthIdx == << 5, 6 >>
PickPx(pts, idx) == [ i \in 1..Len(idx) |-> pts[idx[i]] ]

\* anchorsCurr
anchorsOf(pts) ==
  [ L |-> meanPx(PickPx(pts, LeftEyeIdx)),
    R |-> meanPx(PickPx(pts, RightEyeIdx)),
    M |-> meanPx(PickPx(pts, MouthIdx)) ]

\* getBounds(points, w, h).h in pixels
boundsH(pts) ==
  LET ys == { pts[i].y : i \in 1..Len(pts) }
      top == CHOOSE m \in ys : \A v \in ys : QLe(m, v)
      bot == CHOOSE m \in ys : \A v \in ys : QLe(v, m)
  IN QSub(bot, top)

\* apply(x, y) of the motion block: Tm[0], Tm[2], Tm[4] for x and Tm[1], Tm[3],
\* Tm[5] for y (indices from 0 in the code, from 1 here)
apply(Tm, p) ==
  [ x |-> QAdd(QAdd(QMul(Tm[1], p.x), QMul(Tm[3], p.y)), Tm[5]),
    y |-> QAdd(QAdd(QMul(Tm[2], p.x), QMul(Tm[4], p.y)), Tm[6]) ]

\* the sum of the squared residuals of the loop
sumSq(Tm, prevPts, currPx) ==
  LET n == Len(currPx)
      sq(i) == LET p0 == apply(Tm, prevPts[i])
                   dx == QSub(currPx[i].x, p0.x)
                   dy == QSub(currPx[i].y, p0.y)
               IN QAdd(QMul(dx, dx), QMul(dy, dy))
      Sum[k \in 0..n] == IF k = 0 THEN QZero ELSE QAdd(Sum[k - 1], sq(k))
  IN Sum[n]

\* the condition under which a motion value is computed
hasPrevious(currPx) ==
  /\ ~prevPointsRef.isNull
  /\ ~prevAnchorsRef.isNull
  /\ Len(prevPointsRef.v) = Len(currPx)

motionTransform(anchorsCurr) ==
  LET prevAnch == prevAnchorsRef.v
  IN estimateSimilarity2D(<< prevAnch.L, prevAnch.R, prevAnch.M >>,
                          << anchorsCurr.L, anchorsCurr.R, anchorsCurr.M >>)

\* the square of rms
motionOf(Tm, prevPts, currPx) ==
  LET h == QMax(QOne, boundsH(currPx))
  IN QDiv(QDiv(sumSq(Tm, prevPts, currPx), QInt(Len(currPx))), QMul(h, h))

\* the motion block of one frame with a face
motionStep(currPx, face) ==
  \E anchorsCurr \in { anchorsOf(currPx) } :
    /\ \/ /\ hasPrevious(currPx)
          /\ \E Tm \in { motionTransform(anchorsCurr) } :
               /\ motionNow' = motionOf(Tm, prevPointsRef.v, currPx)
               /\ motionSeen' =
                    [ n |-> motionSeen.n + 1, computed |-> TRUE,
                      face |-> face, prevFace |-> motionSeen.face,
                      anchorsCurr |-> anchorsCurr,
                      mapped |-> [ L |-> apply(Tm, prevAnchorsRef.v.L),
                                   R |-> apply(Tm, prevAnchorsRef.v.R),
                                   M |-> apply(Tm, prevAnchorsRef.v.M) ] ]
       \/ /\ ~hasPrevious(currPx)
          /\ motionNow' = motionNow
          /\ motionSeen' =
               [ n |-> motionSeen.n + 1, computed |-> FALSE,
                 face |-> face, prevFace |-> face,
                 anchorsCurr |-> anchorsCurr, mapped |-> anchorsCurr ]
    /\ prevPointsRef' = Ref(currPx)
    /\ prevAnchorsRef' = Ref(anchorsCurr)

\* ---------------------------------------------------- motion specification
\* frames with a face
MaxMotionFrames == 3

\* the model face at rest: eye corners, mouth corners, chin, forehead; the
\* chin drops by `jaw` pixels, and the last point is missing from a `short` face
Px(x, y) == [x |-> QInt(x), y |-> QInt(y)]
FacePx(jaw, short) ==
  LET full == << Px(10, 20), Px(12, 20), Px(14, 20), Px(16, 20),
                 Px(12, 24), Px(14, 24), Px(13, 26 + jaw), Px(13, 17) >>
  IN IF short THEN SubSeq(full, 1, 7) ELSE full
JawDrops == { 0, 1 }

\* rigid placements of the head in the image plane: x' = a x + b y + tx,
\* y' = c x + d y + ty with (a, b; c, d) a rotation
Poses ==
  { [a |-> 1, b |-> 0, c |-> 0, d |-> 1, tx |-> 0, ty |-> 0],      \* at rest
    [a |-> 1, b |-> 0, c |-> 0, d |-> 1, tx |-> 3, ty |-> -2],     \* shifted
    [a |-> 0, b |-> -1, c |-> 1, d |-> 0, tx |-> 40, ty |-> 0] }   \* turned by 90 degrees
Placed(pose, pts) ==
  [ i \in 1..Len(pts) |->
      [ x |-> QAdd(QAdd(QMul(QInt(pose.a), pts[i].x), QMul(QInt(pose.b), pts[i].y)), QInt(pose.tx)),
        y |-> QAdd(QAdd(QMul(QInt(pose.c), pts[i].x), QMul(QInt(pose.d), pts[i].y)), QInt(pose.ty)) ] ]

MotionFrame ==
  /\ motionSeen.n < MaxMotionFrames
  /\ \E pose \in Poses, jaw \in JawDrops, short \in BOOLEAN :
       motionStep(Placed(pose, FacePx(jaw, short)),
                  [jaw |-> jaw, short |-> short, pose |-> pose])

\* ================================================== component lifecycle
\* The initialisation effect's async body, its cleanup, the frame loop and the
\* Pause/Resume button.  Each action is one turn of the event loop: the
\* continuation after an await, a callback, or a click.  Animation-frame
\* handles are the positive integers in the order they are given out.

\* animation-frame handles given out
MaxHandles == 3
\* presses of the Pause/Resume button
MaxPresses == 3

\* requestAnimationFrame(tick): a new handle, scheduled
requestAnimationFrame(sched, given) ==
  [handle |-> given + 1, scheduled |-> sched \cup { given + 1 }, handles |-> given + 1]

\* startLoop(): schedules tick unless rafRef.current holds a handle
startLoop(raf, sched, given) ==
  IF raf = 0 THEN requestAnimationFrame(sched, given)
  ELSE [handle |-> raf, scheduled |-> sched, handles |-> given]

\* stopLoop(): cancels the handle in rafRef.current and sets it to null
stopLoop(raf, sched, given) ==
  [handle |-> 0, scheduled |-> IF raf # 0 THEN sched \ { raf } ELSE sched, handles |-> given]

SetLoop(l) ==
  /\ rafRef' = l.handle
  /\ scheduled' = l.scheduled
  /\ handles' = l.handles

\* may startLoop be followed within the bound
CanSchedule == handles < MaxHandles

\* await getUserMedia resolves: the camera is on; the body goes on only if
\* active, and otherwise returns
GotUserMedia ==
  /\ initPc = "getUserMedia"
  /\ tracks' = "live"
  /\ IF active
     THEN srcObject' = "stream" /\ initPc' = "play"
     ELSE srcObject' = srcObject /\ initPc' = "done"
  /\ UNCHANGED << active, mounted, streaming, rafRef, scheduled, handles, presses >>

\* await video.play() resolves
Played ==
  /\ initPc = "play"
  /\ initPc' = "import"
  /\ UNCHANGED << active, mounted, tracks, srcObject, streaming, rafRef, scheduled,
                  handles, presses >>

\* await import("@mediapipe/tasks-vision") resolves
Imported ==
  /\ initPc = "import"
  /\ initPc' = "forVisionTasks"
  /\ UNCHANGED << active, mounted, tracks, srcObject, streaming, rafRef, scheduled,
                  handles, presses >>

\* await FilesetResolver.forVisionTasks() resolves
ResolverReady ==
  /\ initPc = "forVisionTasks"
  /\ initPc' = "createFromOptions"
  /\ UNCHANGED << active, mounted, tracks, srcObject, streaming, rafRef, scheduled,
                  handles, presses >>

\* await FaceLandmarker.createFromOptions() resolves: setStreaming(true),
\* startLoop()
LandmarkerCreated ==
  /\ initPc = "createFromOptions"
  /\ rafRef = 0 => CanSchedule
  /\ initPc' = "done"
  /\ streaming' = TRUE
  /\ SetLoop(startLoop(rafRef, scheduled, handles))
  /\ UNCHANGED << active, mounted, tracks, srcObject, presses >>

\* any of the awaits rejects: the catch block
InitFailed ==
  /\ initPc # "done"
  /\ initPc' = "done"
  /\ UNCHANGED << active, mounted, tracks, srcObject, streaming, rafRef, scheduled,
                  handles, presses >>

\* the effect's cleanup, run when the component unmounts
Cleanup ==
  /\ mounted
  /\ mounted' = FALSE
  /\ active' = FALSE
  /\ SetLoop(stopLoop(rafRef, scheduled, handles))
  /\ IF srcObject # "null"
     THEN tracks' = "stopped" /\ srcObject' = "null"
     ELSE UNCHANGED << tracks, srcObject >>
  /\ UNCHANGED << initPc, streaming, presses >>

\* the browser runs a scheduled tick: processFrame(), then the next request
FrameCallback ==
  /\ CanSchedule
  /\ \E h \in scheduled :
       SetLoop(requestAnimationFrame(scheduled \ { h }, handles))
  /\ UNCHANGED << initPc, active, mounted, tracks, srcObject, streaming, presses >>

\* onClick of the Pause/Resume button
onClick(raf, sched, given) ==
  IF streaming THEN stopLoop(raf, sched, given) ELSE startLoop(raf, sched, given)

PressButton ==
  /\ mounted
  /\ presses.n < MaxPresses
  /\ (~streaming /\ rafRef = 0) => CanSchedule
  /\ SetLoop(onClick(rafRef, scheduled, handles))
  /\ presses' = [ n |-> presses.n + 1, wasRunning |-> rafRef # 0,
                  running |-> onClick(rafRef, scheduled, handles).handle # 0 ]
  /\ UNCHANGED << initPc, active, mounted, tracks, srcObject, streaming >>

\* ======================================================= unchecked inputs
\* createInsightsTracker and update hold no throw statement and call nothing
\* that throws on a number (arithmetic, comparisons, Math.max / Math.min,
\* Array.filter / push / slice), so every call ends by returning its value.
Returns(v) == [threw |-> FALSE, value |-> v]

\* NaN as a stored timestamp.  The model makes no update after one at NaN,
\* so the value is never read as a number.
NaNMs == -(2^30)

\* update(metrics, NaN): every comparison with the timestamp, or with a
\* cutoff or a duration computed from it, is false.  The state machine steps
\* as usual and stamps NaN; the duration test fails; cleanup's filters keep
\* nothing; perclos adds no ongoing span.
updateAtNaN(st, earL, earR, mar) ==
  LET earAvg == (earL + earR) \div 2
      b0     == IF st.baselineEar = Null THEN earAvg ELSE st.baselineEar
      b1     == (BaselineKeep * b0 + BaselineGain * earAvg) \div 100
      thresh == threshold(b1)
      moved  == (~st.closed /\ earAvg < thresh) \/ (st.closed /\ earAvg >= thresh)
      st3    == [ st EXCEPT !.baselineEar = b1,
                            !.closed = IF moved THEN ~@ ELSE @,
                            !.lastStateChange = IF moved THEN NaNMs ELSE @,
                            !.blinkTimes = << >>,
                            !.closedSpans = << >> ]
  IN [ state |-> st3,
       snap  |-> [ earLeft |-> earL, earRight |-> earR, earAvg |-> earAvg,
                   blink |-> FALSE, blinkRatePerMin |-> 0, perclos |-> 0,
                   mar |-> mar,
                   yawnProbability |-> clamp01((mar - YawnLo) * (Unit \div YawnSpan)) ] ]

\* update(metrics, nowMs) for any number nowMs
updateAt(st, earL, earR, mar, t) ==
  IF t = NaN THEN updateAtNaN(st, earL, earR, mar)
  ELSE update(st, earL, earR, mar, t.v)

\* --------------------------------------------- unchecked-input specification
\* calls of update explored after the tracker's creation
MaxCalls == 3
\* configured windows: none given (the default) and a zero-length one
ConfiguredWindows == { DefaultWindowMs, 0 }
\* timestamps: the next frame's, and three a correct caller never passes
TimeInputs(t0) ==
  { Num(t0 + BlinkMinMs), Num(t0 + BlinkMaxMs + 1), Num(-1), Num(-BlinkMaxMs), NaN }

isProgrammerError(call) ==
  \/ call.fn = "createInsightsTracker" /\ call.windowMs = 0
  \/ call.fn = "update" /\ (call.nowMs = NaN \/ (call.nowMs # NaN /\ call.nowMs.v < 0))

\* const tracker = createInsightsTracker({ windowMs })
InitUnchecked ==
  \E w \in ConfiguredWindows :
    /\ state = createInsightsTracker(w)
    /\ args = [fn |-> "createInsightsTracker", windowMs |-> w]
    /\ result = Returns(NoSnapshot)
    /\ returned = TRUE
    /\ snap = NoSnapshot
    /\ now = 0
    /\ trace = << >>

\* tracker.update(metrics, nowMs)
UpdateUnchecked ==
  /\ Len(trace) < MaxCalls
  /\ state.lastStateChange # NaNMs
  /\ ~(args.fn = "update" /\ args.nowMs = NaN)
  /\ \E ear \in SessionEarInputs, t \in TimeInputs(now) :
       LET r  == updateAt(state, ear, ear, 0, t)
           tm == IF t = NaN THEN NaNMs ELSE t.v
       IN /\ state' = r.state
          /\ snap' = r.snap
          /\ result' = Returns(r.snap)
          /\ args' = [fn |-> "update", nowMs |-> t, before |-> state]
          /\ now' = IF t = NaN THEN now ELSE Max(now, t.v)
          /\ trace' = Append(trace, Observed(r.state, r.snap, tm))
  /\ returned' = TRUE

\* ------------------------------------------------- baseline specification
\* updates explored from a new tracker
MaxBaselineUpdates == 4
\* openness of one eye: nearly shut, half shut, relaxed open, and the ratio
\* above 1 that the mesh branch of getFaceMetrics can return
BaselineEarInputs ==
  { (5 * Unit) \div 100, (10 * Unit) \div 100, (30 * Unit) \div 100, (120 * Unit) \div 100 }

\* tracker.update(metrics, nowMs) with eyes that need not agree
UpdateEyes ==
  /\ Len(trace) < MaxBaselineUpdates
  /\ \E earL \in BaselineEarInputs, earR \in BaselineEarInputs :
       LET t == now + BlinkMinMs
           r == update(state, earL, earR, 0, t)
       IN /\ state' = r.state
          /\ snap' = r.snap
          /\ now' = t
          /\ trace' = Append(trace, Observed(r.state, r.snap, t))

\* ---------------------------------------------------------- specifications
vars == << trackerVars, metricsVars, frameVars, callVars, sessionVars >>

\* the tracker driven directly through update()
InitMetricsIdle == landmarks = << >> /\ metrics = EmptyMetrics /\ measured = FALSE
Init == InitTracker /\ InitMetricsIdle /\ InitFrame /\ InitCallIdle /\ InitSessionsIdle
Next == Update /\ UNCHANGED << metricsVars, frameVars, callVars, sessionVars >>
Spec == Init /\ [][Next]_vars

\* the motion block driven by frames with a face
InitMotion == InitTracker /\ InitMetricsIdle /\ InitFrame /\ InitCallIdle /\ InitSessionsIdle
NextMotion ==
  MotionFrame
  /\ UNCHANGED << trackerVars, metricsVars, loopVars, lifeVars, callVars, sessionVars >>
SpecMotion == InitMotion /\ [][NextMotion]_vars

\* the component from mount to unmount
InitLifecycle == InitTracker /\ InitMetricsIdle /\ InitFrame /\ InitCallIdle /\ InitSessionsIdle
NextLifecycle ==
  /\ \/ GotUserMedia
     \/ Played
     \/ Imported
     \/ ResolverReady
     \/ LandmarkerCreated
     \/ InitFailed
     \/ Cleanup
     \/ FrameCallback
     \/ PressButton
  /\ UNCHANGED << trackerVars, metricsVars, loopVars, motionVars, callVars, sessionVars >>
SpecLifecycle == InitLifecycle /\ [][NextLifecycle]_vars

\* getFaceMetrics applied to bounded landmark lists
InitGeometry == InitMetrics /\ InitTracker /\ InitFrame /\ InitCallIdle /\ InitSessionsIdle
NextGeometry ==
  (AddLandmark \/ Measure) /\ UNCHANGED << trackerVars, frameVars, callVars, sessionVars >>
SpecGeometry == InitGeometry /\ [][NextGeometry]_vars

\* the animation-frame loop calling processFrame
InitLoop == InitFrame /\ InitTracker /\ InitMetricsIdle /\ InitCallIdle /\ InitSessionsIdle
NextLoop ==
  (Tick \/ IrregularTick)
  /\ UNCHANGED << metricsVars, trace, callVars, sessionVars, motionVars, lifeVars >>
SpecLoop == InitLoop /\ [][NextLoop]_vars

\* the state of everything but the call under examination
InitRestIdle == InitTracker /\ InitMetricsIdle /\ InitFrame /\ InitSessionsIdle
restVars == << trackerVars, metricsVars, frameVars, sessionVars >>

\* computeHeartRate and estimateRespirationRate applied to bounded sample buffers
InitHeartRate == InitHR /\ InitRestIdle
NextHeartRate == (AppendSample \/ ComputeHR \/ ComputeResp) /\ UNCHANGED restVars
SpecHeartRate == InitHeartRate /\ [][NextHeartRate]_vars

\* estimateSimilarity2D applied to bounded correspondence lists
InitSimilarity == InitSolver /\ InitRestIdle
NextSimilarity == (AddSrc \/ AddDst \/ Solve) /\ UNCHANGED restVars
SpecSimilarity == InitSimilarity /\ [][NextSimilarity]_vars

\* the two smoothing functions applied to bounded paths
InitSmoothing == InitPath /\ InitRestIdle
NextSmoothing == (AddPoint \/ CallChaikin \/ CallSavitzkyGolay) /\ UNCHANGED restVars
SpecSmoothing == InitSmoothing /\ [][NextSmoothing]_vars

\* estimateHRV applied to bounded signals
InitHRV == InitHRVCall /\ InitRestIdle
NextHRV == (AddBump \/ CallHRV) /\ UNCHANGED restVars
SpecHRV == InitHRV /\ [][NextHRV]_vars

\* estimateFacialAdiposity applied to bounded landmark lists
InitAdiposity == InitFat /\ InitRestIdle
NextAdiposity == (AddFacePoint \/ CallFat) /\ UNCHANGED restVars
SpecAdiposity == InitAdiposity /\ [][NextAdiposity]_vars

\* two trackers updated in any interleaving, next to tracker A run alone
InitTwoTrackers == InitSessions /\ InitTracker /\ InitMetricsIdle /\ InitFrame /\ InitCallIdle
NextTwoTrackers == (UpdateA \/ UpdateB) /\ UNCHANGED << metricsVars, frameVars, callVars >>
SpecTwoTrackers == InitTwoTrackers /\ [][NextTwoTrackers]_vars

\* the tracker created and updated with arguments nobody validated
InitUncheckedInputs == InitUnchecked /\ InitMetricsIdle /\ InitFrame /\ InitSessionsIdle
NextUncheckedInputs == UpdateUnchecked /\ UNCHANGED << metricsVars, frameVars, sessionVars >>
SpecUncheckedInputs == InitUncheckedInputs /\ [][NextUncheckedInputs]_vars

\* the tracker fed with any pair of eye opennesses
InitBaseline == Init
NextBaseline == UpdateEyes /\ UNCHANGED << metricsVars, frameVars, callVars, sessionVars >>
SpecBaseline == InitBaseline /\ [][NextBaseline]_vars

\* --------------------------------------------------- reference quantities
\* length of the overlap of [a, b] with [lo, hi]
Overlap(a, b, lo, hi) == Max(0, Min(b, hi) - Max(a, lo))

\* time inside [lo, hi] during which the tracker was CLOSED, read off the
\* update history: the tracker is CLOSED between update i and update i+1
\* exactly when update i left it CLOSED
RECURSIVE ClosedTime(_, _, _, _)
ClosedTime(tr, k, lo, hi) ==
  IF k <= 1 THEN 0
  ELSE (IF tr[k-1].closed THEN Overlap(tr[k-1].t, tr[k].t, lo, hi) ELSE 0)
       + ClosedTime(tr, k - 1, lo, hi)

\* C1: the perclos returned by update(metrics, now) is the total time inside
\* [now - windowMs, now] during which the tracker was CLOSED (completed spans
\* and the ongoing closure, clipped to the window) over windowMs; a closure
\* that lasted the whole window gives 1.
C1_PerclosIsClosedTime ==
  trace # << >> =>
    snap.perclos = ClosedTime(trace, Len(trace), now - state.windowMs, now)

\* ------------------------------------------------- reading the update history
NUpd == Len(trace)
Cur == trace[NUpd]
\* what the update before the last one left behind (the fresh tracker if none)
PrvClosed == IF NUpd >= 2 THEN trace[NUpd - 1].closed ELSE FALSE
PrvLsc == IF NUpd >= 2 THEN trace[NUpd - 1].lsc ELSE 0
PrvRate == IF NUpd >= 2 THEN trace[NUpd - 1].rate ELSE 0
PrvSpans == IF NUpd >= 2 THEN trace[NUpd - 1].nspans ELSE 0
Cutoff == now - state.windowMs

\* index of the update that began the closed run update k belongs to
RECURSIVE RunStart(_, _)
RunStart(tr, k) ==
  IF k > 1 /\ tr[k-1].closed THEN RunStart(tr, k - 1) ELSE k

\* the last update ended a closure (CLOSED -> OPEN): t0, t1 and its duration
Opening == NUpd >= 2 /\ PrvClosed /\ ~Cur.closed
ClosingIdx == RunStart(trace, NUpd - 1)
DipT0 == trace[ClosingIdx].t
DipMs == Cur.t - DipT0
\* blink-reporting updates whose timestamp is still inside the window
BlinksInWindow == { j \in 1..NUpd : trace[j].blink /\ trace[j].t >= Cutoff }
EarlierBlinksInWindow == { j \in 1..(NUpd - 1) : trace[j].blink /\ trace[j].t >= Cutoff }

\* C2 (as stated): an 80..500 ms dip ends with blink = true and one new
\* blink timestamp, and the blink rate is one blink higher than before.
C2_RateOneHigherThanBefore ==
  (Opening /\ DipMs >= 80 /\ DipMs <= 500) =>
     /\ Cur.blink
     /\ Cur.rate = PrvRate + 60000

\* C2 (amended): an 80..500 ms dip (bounds inclusive) ends with blink = true
\* and exactly one new blink timestamp, the blink rate is the number of blink
\* timestamps still inside the window x 60000 / windowMs, i.e. one blink more
\* than the earlier blink timestamps still inside the window account for; no
\* other update reports or records a blink.
C2_BlinkCounted ==
  NUpd >= 1 =>
     /\ Cur.blink <=> (Opening /\ DipMs >= 80 /\ DipMs <= 500)
     /\ Cur.nblinks = Cardinality(EarlierBlinksInWindow) + (IF Cur.blink THEN 1 ELSE 0)
     /\ Cur.blink => state.blinkTimes[Len(state.blinkTimes)] = Cur.t
     /\ Cur.rate = Cardinality(BlinksInWindow) * 60000

\* a 150..500 ms style dip just ended while an earlier blink left the window
C2_Witness ==
  /\ NUpd >= 1 /\ Opening /\ DipMs >= 80 /\ DipMs <= 500 /\ Cur.blink
  /\ \E j \in 1..(NUpd - 1) : trace[j].blink /\ trace[j].t < Cutoff

\* perclos returned just before the closure began
PerclosBeforeDip == IF ClosingIdx >= 2 THEN trace[ClosingIdx - 1].perclos ELSE 0
\* closed time the earlier perclos counted, and how much of it is still in the
\* window when the closure ends
ClosedBeforeDipThen ==
  IF ClosingIdx >= 2
  THEN ClosedTime(trace, ClosingIdx - 1,
                  trace[ClosingIdx - 1].t - state.windowMs, trace[ClosingIdx - 1].t)
  ELSE 0
ClosedBeforeDipNow ==
  IF ClosingIdx >= 2 THEN ClosedTime(trace, ClosingIdx - 1, Cutoff, now) ELSE 0
NonBlinkDip == Opening /\ (DipMs < 80 \/ DipMs > 500)

\* C3 (as stated): a closure shorter than 80 ms or longer than 500 ms records
\* no blink, and the perclos returned after it is strictly greater than the
\* perclos returned just before it began.
C3_PerclosStrictlyGreater ==
  NonBlinkDip =>
     /\ ~Cur.blink
     /\ Cur.perclos > PerclosBeforeDip

\* C3 (amended): such a closure records no blink timestamp and reports
\* blink = false, its closed span [t0, t1] is always recorded, the perclos
\* returned after it is at least min(t1 - t0, windowMs) / windowMs, and it is
\* strictly greater than the perclos returned just before the closure began
\* whenever t1 > t0 and none of the closed time counted then has left the
\* window by t1.
C3_LongDipNoBlink ==
  NonBlinkDip =>
     /\ ~Cur.blink
     /\ Cur.nblinks = Cardinality(EarlierBlinksInWindow)
     /\ state.closedSpans # << >>
     /\ state.closedSpans[Len(state.closedSpans)] = [start |-> DipT0, end |-> Cur.t]
     /\ Cur.perclos >= Min(DipMs, state.windowMs)
     /\ (DipMs > 0 /\ ClosedBeforeDipNow = ClosedBeforeDipThen)
           => Cur.perclos > PerclosBeforeDip

\* a 501 ms closure just ended after an earlier closure was recorded
C3_Witness ==
  /\ NUpd >= 1 /\ NonBlinkDip /\ DipMs > 500
  /\ PerclosBeforeDip > 0 /\ Cur.perclos > PerclosBeforeDip

\* C4: a new tracker is OPEN; after each update the tracker is CLOSED exactly
\* when the average openness is below the threshold, so OPEN->CLOSED happens
\* exactly on openness < threshold and CLOSED->OPEN exactly on openness >=
\* threshold; an update makes at most one transition; lastStateChange is the
\* update's timestamp on a transition and unchanged otherwise; from each state
\* some input leads to the other state.
C4_StateMachine ==
  /\ NUpd = 0 => (~state.closed /\ state.lastStateChange = 0)
  /\ NUpd >= 1 =>
       /\ Cur.closed = state.closed
       /\ (~PrvClosed /\ Cur.closed) <=> (~PrvClosed /\ Cur.ear < threshold(state.baselineEar))
       /\ (PrvClosed /\ ~Cur.closed) <=> (PrvClosed /\ Cur.ear >= threshold(state.baselineEar))
       /\ Cur.lsc = (IF Cur.closed # PrvClosed THEN Cur.t ELSE PrvLsc)
       /\ Cur.nspans <= PrvSpans + 1
       /\ (Cur.closed # PrvClosed) \/ Cur.nspans <= PrvSpans
  /\ \E ear \in EarInputs :
       update(state, ear, ear, 0, now).state.closed # state.closed

\* both transitions have been taken, with an update in between that took none
C4_Witness ==
  /\ NUpd >= 4
  /\ trace[1].closed /\ trace[2].closed /\ ~trace[3].closed /\ trace[4].closed
  /\ trace[2].lsc = trace[1].t /\ trace[4].lsc = trace[4].t /\ trace[4].t > trace[3].t

\* C5: after every update each stored blink timestamp and the end of each
\* stored closed span is >= now - windowMs, and the returned blink rate and
\* perclos count nothing older than that.
C5_HistoriesPruned ==
  NUpd >= 1 =>
     /\ \A i \in 1..Len(state.blinkTimes) : state.blinkTimes[i] >= Cutoff
     /\ \A i \in 1..Len(state.closedSpans) : state.closedSpans[i].end >= Cutoff
     /\ snap.blinkRatePerMin = 60000 * Cardinality(BlinksInWindow)
     /\ snap.perclos <= ClosedTime(trace, NUpd, Cutoff, now)

\* a blink timestamp and a closed span recorded earlier have been evicted
C5_Witness ==
  /\ NUpd >= 1
  /\ \E j \in 1..(NUpd - 1) : trace[j].blink /\ trace[j].t < Cutoff
  /\ \E j \in 1..(NUpd - 1) : trace[j].nspans > Len(state.closedSpans)

\* ------------------------------------------------------ geometry, checked

InUnit(q) == QLe(QZero, q) /\ QLe(q, QOne)

\* C6: for every non-empty landmark list, dense or sparse, the left eye
\* openness, the right eye openness and the mouth open ratio returned by
\* getFaceMetrics lie in [0, 1].
C6_OpennessInUnitRange ==
  (measured /\ Len(landmarks) > 0) =>
     /\ InUnit(metrics.eyes.left.openness)
     /\ InUnit(metrics.eyes.right.openness)
     /\ InUnit(metrics.mouth.openRatio)

\* C7: getFaceMetrics on fewer than 3 points returns zero openness for both
\* eyes, a zero mouth open ratio and an empty jawline path; on the empty list
\* the whole result is all-zero.
C7_FewPointsGiveEmptyResult ==
  (measured /\ Len(landmarks) < 3) =>
     /\ metrics.eyes.left.openness = QZero
     /\ metrics.eyes.right.openness = QZero
     /\ metrics.mouth.openRatio = QZero
     /\ metrics.jawline.path = << >>
     /\ Len(landmarks) = 0 => metrics = EmptyMetrics

\* -------------------------------------------------------------- the buffer
\* timestamps in a buffer are in non-decreasing order
Ordered(buf) == \A i \in 1..(Len(buf) - 1) : buf[i].t <= buf[i + 1].t
\* b is a of which only oldest entries were removed, plus one new entry
IsSuffixPlusOne(a, b) ==
  /\ b # << >>
  /\ Len(b) <= Len(a) + 1
  /\ \A i \in 1..(Len(b) - 1) : b[i] = a[Len(a) + 1 - (Len(b) - i)]

\* C8: after every frame that appends a colour sample, every sample left in
\* the buffer is at most 20000 ms older than the current time, the samples are
\* in non-decreasing timestamp order, and eviction only ever removed samples
\* from the oldest end.
C8_BufferStep ==
  (frame'.n # frame.n /\ frame'.sampled) =>
     /\ \A i \in 1..Len(samples') : samples'[i].t >= clock' - 20000
     /\ Ordered(samples')
     /\ IsSuffixPlusOne(samples, samples')
     /\ samples'[Len(samples')].t >= frame'.ts /\ samples'[Len(samples')].t <= clock'
C8_BufferBounded == [][C8_BufferStep]_vars

\* several samples were evicted at once and some were kept
C8_Witness == frame.sampled /\ frame.evicted >= 2 /\ Len(samples) >= 2

\* time of the latest computation before the last frame (-1: none)
Before(log, did) ==
  LET k == IF did THEN Len(log) - 1 ELSE Len(log)
  IN IF k >= 1 THEN log[k] ELSE -1

\* C9: on any frame where the buffer holds at least 64 samples and at least
\* 1 s has passed since the previous heart-rate computation (or none has
\* happened yet) the heart rate is recomputed; it is never recomputed with
\* fewer than 64 samples or less than 1 s after the previous computation.
C9_HeartRateGate ==
  (frame.n >= 1 /\ frame.sampled) =>
     LET prev == Before(hrLog, frame.hr)
         elapsed == prev = -1 \/ frame.ts - prev >= 1000
     IN /\ (Len(samples) >= 64 /\ elapsed) => frame.hr
        /\ frame.hr => (Len(samples) >= 64 /\ elapsed)

MeanDeltaUnusable(smp) ==
  \/ \E i \in 1..Len(smp) : ~isFinite(smp[i].t)
  \/ smp[Len(smp)].t.v - smp[1].t.v <= 0

\* C11: computeHeartRate returns bpm = null and confidence = 0 whenever it is
\* given fewer than 64 samples, or whenever the mean inter-sample timestamp
\* delta is non-finite or non-positive.
C11_NullOnUnusableInput ==
  (returned /\ args.fn = "computeHeartRate") =>
     ((Len(args.samples) < 64 \/ MeanDeltaUnusable(args.samples)) =>
        (result.bpm = NullQ /\ result.confidence = QZero))

\* a full buffer whose timestamps run backwards overall was given
C11_Witness ==
  /\ returned /\ args.fn = "computeHeartRate"
  /\ Len(args.samples) >= 64
  /\ \A i \in 1..Len(args.samples) : isFinite(args.samples[i].t)
  /\ args.samples[Len(args.samples)].t.v < args.samples[1].t.v
  /\ args.samples[2].t.v > args.samples[1].t.v
  /\ result = NullHR

\* ---------------------------------------------- estimateSimilarity2D, checked
\* twice the signed area of the triangle of the first three points, in
\* units of the squared scale
Area2(pts) ==
  (pts[2].x - pts[1].x) * (pts[3].y - pts[1].y) - (pts[3].x - pts[1].x) * (pts[2].y - pts[1].y)
\* the transform T maps sc * p to sc * q (both sides divided by sc)
Maps(T, sc, p, q) ==
  /\ QInt(q.x) = QAdd(QAdd(QMul(T[1], QInt(p.x)), QMul(T[2], QInt(p.y))), QDiv(T[5], sc))
  /\ QInt(q.y) = QAdd(QAdd(QMul(T[3], QInt(p.x)), QMul(T[4], QInt(p.y))), QDiv(T[6], sc))
Solved == returned /\ args.fn = "estimateSimilarity2D"

\* C12: for three non-colinear source points and any three destination
\* points the returned (a, b, c, d, tx, ty) maps each source point to its
\* destination point; when the destination equals the source it is the
\* identity (1, 0, 0, 1, 0, 0).
C12_TransformFitsPairs ==
  (Solved /\ Len(args.src) >= 3 /\ Len(args.dst) >= 3 /\ Area2(args.src) # 0) =>
     /\ \A i \in 1..3 : Maps(result, args.scale, args.src[i], args.dst[i])
     /\ (\A i \in 1..3 : args.dst[i] = args.src[i]) =>
           result = << QOne, QZero, QZero, QOne, QZero, QZero >>

\* C13: estimateSimilarity2D returns exactly the identity transform whenever
\* the source list or the destination list has fewer than 3 points.
C13_IdentityOnFewPoints ==
  (Solved /\ (Len(args.src) < 3 \/ Len(args.dst) < 3)) =>
     result = << QOne, QZero, QZero, QOne, QZero, QZero >>

\* three source points but only two destination points were given
C13_Witness ==
  /\ Solved /\ Len(args.src) = 3 /\ Len(args.dst) = 2
  /\ result = << QOne, QZero, QZero, QOne, QZero, QZero >>

\* --------------------------------------------------------- smoothing, checked
Chaikined == returned /\ args.fn = "smoothChaikin"
Golayed == returned /\ args.fn = "savitzkyGolay"
Pow2(k) == IF k = 0 THEN 1 ELSE IF k = 1 THEN 2 ELSE IF k = 2 THEN 4 ELSE IF k = 3 THEN 8 ELSE 16
\* the point at fraction f / 4 of the way from p to q
Along(p, q, f) ==
  QPt(QAdd(p.x, QMul(Q(f, 4), QSub(q.x, p.x))), QAdd(p.y, QMul(Q(f, 4), QSub(q.y, p.y))))

\* C14: smoothChaikin returns a sequence equal to its input when
\* iterations = 0 or when the input has fewer than 3 points, and it never
\* modifies the caller's array.
C14_ChaikinIdentity ==
  Chaikined =>
     /\ (args.param = QZero \/ Len(args.given) < 3) => result = args.given
     /\ args.points = args.given

\* zero passes over a path of three or more points
C14_Witness ==
  Chaikined /\ args.param = QZero /\ Len(args.given) >= 3 /\ result = args.given

\* C15: for n >= 3 points and k >= 1 iterations smoothChaikin returns n * 2^k
\* points, its first and last points are the input's first and last points,
\* and the last pass replaced every segment (p, q) of the path before it by
\* the points at 1/4 and 3/4 of the way from p to q, in order.
C15_ChaikinDoubles ==
  (Chaikined /\ Len(args.given) >= 3 /\ QLe(QOne, args.param)) =>
     LET n == Len(args.given)
         k == args.param.num
         prev == smoothChaikin(args.given, k - 1)
     IN /\ Len(result) = n * Pow2(k)
        /\ result[1] = args.given[1]
        /\ result[Len(result)] = args.given[n]
        /\ \A i \in 1..(Len(prev) - 1) :
             /\ result[2 * i] = Along(prev[i], prev[i + 1], 1)
             /\ result[2 * i + 1] = Along(prev[i], prev[i + 1], 3)

\* two passes over a path whose points are not all the same
C15_Witness ==
  /\ Chaikined /\ args.param = QInt(2) /\ Len(args.given) >= 4
  /\ args.given[1] # args.given[2] /\ Len(result) = 4 * Len(args.given)

\* C16: savitzkyGolay with window size 7 returns as many points as it was
\* given, every x-coordinate unchanged, and on an input whose y-values are all
\* equal it returns that y-value at every index, the first and last three
\* included.
C16_GolayKeepsConstants ==
  (Golayed /\ args.param = QInt(7)) =>
     /\ Len(result) = Len(args.given)
     /\ \A i \in 1..Len(result) : result[i].x = args.given[i].x
     /\ (\A i \in 1..Len(args.given) : args.given[i].y = args.given[1].y) =>
           \A i \in 1..Len(result) : result[i].y = args.given[1].y

\* a constant, non-zero height over seven or more points with differing x
C16_Witness ==
  /\ Golayed /\ args.param = QInt(7) /\ Len(args.given) >= 7
  /\ \A i \in 1..Len(args.given) : args.given[i].y = QInt(3)
  /\ args.given[1].x # args.given[2].x
  /\ result = args.given

\* C17 as stated: any window size other than 7 returns the input unchanged,
\* and so does any input of fewer than 3 points.
C17_OtherWindowIsNoOp ==
  (Golayed /\ (args.param # QInt(7) \/ Len(args.given) < 3)) => result = args.given

\* C17, amended: any window size below 7 or at least 8 (any size whose
\* integer part is not 7) returns the input unchanged, and so does any input
\* of fewer than 3 points.
C17_OtherIntegerWindowIsNoOp ==
  (Golayed /\ (QLt(args.param, QInt(7)) \/ QLe(QInt(8), args.param) \/ Len(args.given) < 3)) =>
     result = args.given

\* a window of 5 over a path the 7-point kernel would have changed
C17_Witness ==
  /\ Golayed /\ args.param = QInt(5) /\ Len(args.given) >= 3
  /\ savitzkyGolay(args.given, QInt(7)) # args.given
  /\ result = args.given

\* ------------------------------------------------------ estimateHRV, checked
HRVDone == returned /\ args.fn = "estimateHRV"
\* peaks of the smoothed signal the call worked on
PeaksDetected ==
  LET sm == SmoothedOf(args.n, args.bumps)
      st == SignalStats(sm)
  IN Cardinality({ i \in 1..(args.n - 2) : isPeak(sm, st, i) })

\* C18: given at least 128 samples, estimateHRV returns rmssd, sdnn and ibiMs
\* all null exactly when fewer than 3 peaks are detected, and beats is then
\* the number of peaks detected; with 3 or more peaks all three are non-null
\* and beats is the peak count.  With fewer than 128 samples all are null.
C18_NullBelowThreePeaks ==
  HRVDone =>
     LET allNull == result.rmssd.null /\ result.sdnn.null /\ result.ibiMs.null
         noneNull == ~result.rmssd.null /\ ~result.sdnn.null /\ ~result.ibiMs.null
     IN /\ args.n < 128 => allNull
        /\ args.n >= 128 =>
             /\ result.beats = PeaksDetected
             /\ PeaksDetected < 3 => allNull
             /\ PeaksDetected >= 3 => noneNull

\* exactly two peaks among four bumps
C18_Witness ==
  /\ HRVDone /\ args.n >= 128 /\ Len(args.bumps) = 4
  /\ result.beats = 2 /\ result.rmssd.null /\ result.sdnn.null /\ result.ibiMs.null

\* ------------------------------------------- estimateFacialAdiposity, checked
FatDone == returned /\ args.fn = "estimateFacialAdiposity"

\* C19: estimateFacialAdiposity returns fullnessIndex in [0, 1], category
\* "low" exactly when fullnessIndex < 0.33, "medium" exactly when
\* 0.33 <= fullnessIndex < 0.66 and "high" otherwise; an empty landmark set
\* gives fullnessIndex 0, the three detail ratios 0 and category "low".
C19_FullnessAndCategory ==
  FatDone =>
     LET f == result.fullnessIndex
     IN /\ InUnit(f)
        /\ result.category = "low" <=> QLt(f, Q(33, 100))
        /\ result.category = "medium" <=> (QLe(Q(33, 100), f) /\ QLt(f, Q(66, 100)))
        /\ result.category = "high" <=> QLe(Q(66, 100), f)
        /\ Len(args.landmarks) = 0 =>
             /\ f = QZero /\ result.category = "low"
             /\ result.details.widthHeightRatio = QZero
             /\ result.details.cheekPlumpness = QZero
             /\ result.details.jawTaper = QZero

\* a face of medium fullness, strictly inside the range
C19_Witness ==
  /\ FatDone /\ result.category = "medium"
  /\ QLt(Q(33, 100), result.fullnessIndex) /\ QLt(result.fullnessIndex, Q(50, 100))

\* ------------------------------------------------------ two trackers, checked
\* C20: two trackers from separate createInsightsTracker calls share no
\* state: in every interleaving of updates to A and to B, each snapshot A
\* returns is the one it returns when A's updates are run alone, and A's
\* state is the state of that run.
C20_TrackersIndependent ==
  (heap # << >>) => (snapA = snap /\ heap[trackerA] = state)

\* A has just reported a blink; B closed its eyes during A's closure and
\* still has them closed
C20_Witness ==
  /\ heap # << >> /\ calls >= 3
  /\ snapA.blink /\ heap[trackerA].closedSpans # << >>
  /\ heap[trackerB].closed
  /\ heap[trackerB].lastStateChange > heap[trackerA].closedSpans[1].start
  /\ heap[trackerB].lastStateChange < heap[trackerA].closedSpans[1].end

\* ---------------------------------------------------- unchecked inputs, checked
\* C21: the tracker fails fast on programmer-error inputs: creating it with a
\* zero-length window, or calling update with a negative or NaN timestamp,
\* raises an error; it returns no snapshot computed from those values and
\* leaves the tracker state as it was.
C21_FailsFast ==
  (returned /\ isProgrammerError(args)) =>
     /\ result.threw
     /\ args.fn = "update" => state = args.before

\* ------------------------------------------------------- head pose, checked
\* (distance from the right eye centre to the box's right edge) minus
\* (distance from the left eye centre to the box's left edge)
EyeAsymmetry(m) ==
  QSub(QAbs(QSub(Coord(m.box.maxX), m.eyes.right.center.x)),
       QAbs(QSub(m.eyes.left.center.x, Coord(m.box.minX))))

\* the eye-line midpoint lies below the box's vertical centre (y grows downwards)
EyesBelowCentre(m) ==
  QLt(Q(m.box.minY + m.box.maxY, 2 * Grid),
      QDiv(QAdd(m.eyes.left.center.y, m.eyes.right.center.y), QInt(2)))

\* C22: for a non-empty landmark set the yaw returned by getFaceMetrics is
\* signed: it has the sign of the eye asymmetry, negative whenever the
\* asymmetry is negative, and lies in [-1, 1]; pitch is negative whenever the
\* eye-line midpoint lies below the box's vertical centre.
C22_YawSigned ==
  (measured /\ landmarks # << >>) =>
     /\ QLe(QInt(-1), metrics.head.yaw) /\ QLe(metrics.head.yaw, QOne)
     /\ QLt(EyeAsymmetry(metrics), QZero) => QLt(metrics.head.yaw, QZero)
     /\ QLt(QZero, EyeAsymmetry(metrics)) => QLt(QZero, metrics.head.yaw)
     /\ EyesBelowCentre(metrics) => QLt(metrics.head.pitch, QZero)

\* ------------------------------------------------- the peak search, checked
\* the smoothed waveform of the call
Smoothed == SmoothedOf(args.n, args.bumps)
\* n times the sum, and n^2 times the variance, of a waveform of n values
\* (mean = S / n, stddev^2 = SS / n - mean^2)
Moments(sm) ==
  LET S == SumAll(sm)
  IN [n |-> Len(sm), S |-> S, nnVar |-> Len(sm) * SumAll(Squares(sm)) - S * S]
\* x exceeds mean + 0.3 x stddev: n(x - mean) > 0.3 n stddev >= 0, squared
ExceedsThreshold(mo, x) ==
  LET nDev == mo.n * x - mo.S
  IN nDev > 0 /\ 100 * nDev * nDev > 9 * mo.nnVar
Counted(i) == \E k \in DOMAIN args.peakIdxs : args.peakIdxs[k] = i
Inner == 1..(args.n - 2)

\* C23: estimateHRV counts index i (0 < i < last) as a peak exactly when the
\* smoothed value at i exceeds mean + 0.3 x stddev of the smoothed waveform
\* and is strictly greater than both the value at i-1 and the value at i+1;
\* two equal adjacent values never yield a peak at the second of them.
C23_StrictLocalMaximum ==
  (HRVDone /\ args.n >= HRVMinSamples) =>
     LET sm == Smoothed
         mo == Moments(sm)
     IN /\ \A i \in Inner :
             Counted(i) <=> /\ ExceedsThreshold(mo, sm[i + 1])
                            /\ sm[i] < sm[i + 1]
                            /\ sm[i + 2] < sm[i + 1]
        /\ \A i \in Inner : sm[i] = sm[i + 1] => ~Counted(i)

\* C23, amended: index i (0 < i < last) is a peak exactly when the smoothed
\* value at i exceeds mean + 0.3 x stddev, is greater than or equal to the
\* value at i-1 and strictly greater than the value at i+1; of two equal
\* adjacent values the first is never a peak, the second is one when it is
\* above the threshold and the value after it is smaller.  Indices 0 and
\* last are never peaks, and beats is the number of peaks.
C23_PeakAtPlateauEnd ==
  (HRVDone /\ args.n >= HRVMinSamples) =>
     LET sm == Smoothed
         mo == Moments(sm)
     IN /\ \A i \in Inner :
             Counted(i) <=> /\ ExceedsThreshold(mo, sm[i + 1])
                            /\ sm[i] <= sm[i + 1]
                            /\ sm[i + 2] < sm[i + 1]
        /\ \A i \in Inner : sm[i + 1] = sm[i + 2] => ~Counted(i)
        /\ ~Counted(0) /\ ~Counted(args.n - 1)
        /\ result.beats = Len(args.peakIdxs)

\* a plateau of two equal values above the threshold: its second index is a
\* peak, its first is not; a lone bump elsewhere is a peak too
C23_Witness ==
  /\ HRVDone /\ args.n >= HRVMinSamples
  /\ Smoothed[11] = 3 /\ Smoothed[12] = 3
  /\ Counted(11) /\ ~Counted(10)
  /\ Counted(40)

\* ------------------------------------------- baseline and threshold, checked
\* clamp(0.55 x baseline, 0.08, 0.6), in fixed point
ClampedThreshold(baseline) ==
  Max((8 * Unit) \div 100, Min((60 * Unit) \div 100, (55 * baseline) \div 100))
SeenEars == { trace[k].ear : k \in DOMAIN trace }

\* C24, the step: the update decides CLOSED against the threshold
\* clamp(0.55 x baseline, 0.08, 0.6) of the baseline it has just computed, so
\* an openness below 0.08 always closes and one of at least 0.6 always opens;
\* the baseline it computes is the average openness on the first update and
\* 0.98 x the previous baseline + 0.02 x the average openness afterwards.
BaselineStep ==
  LET ear == snap'.earAvg
      b   == state'.baselineEar
  IN /\ state'.closed <=> ear < ClampedThreshold(b)
     /\ ear < (8 * Unit) \div 100 => state'.closed
     /\ ear >= (60 * Unit) \div 100 => ~state'.closed
     /\ state.baselineEar = Null => b = ear
     /\ state.baselineEar # Null => b = (98 * state.baselineEar + 2 * ear) \div 100

\* C24, the range: the baseline lies between the smallest and the largest
\* average openness seen so far, and the threshold derived from it lies in
\* [0.08, 0.6].
BaselineWithinSeen ==
  trace # << >> =>
     /\ \E e \in SeenEars : e <= state.baselineEar
     /\ \E e \in SeenEars : state.baselineEar <= e
     /\ ClampedThreshold(state.baselineEar) >= (8 * Unit) \div 100
     /\ ClampedThreshold(state.baselineEar) <= (60 * Unit) \div 100

\* C24: on every update the closure threshold equals
\* clamp(0.55 x baseline, 0.08, 0.6) and so lies in [0.08, 0.6]; the baseline
\* is the first observed average openness after the first update and
\* 0.98 x the previous baseline + 0.02 x the current average openness after
\* each later one, so it lies between the smallest and the largest openness
\* seen so far.
C24_ThresholdAndBaseline == [][BaselineStep]_vars /\ []BaselineWithinSeen

\* the upper clamp decides: after a closure, an openness of at least 0.6 but
\* below 0.55 x baseline leaves the eyes OPEN; the baseline has moved off the
\* first openness and lies strictly between the openness values seen
C24_Witness ==
  /\ NUpd >= 3
  /\ trace[2].closed
  /\ ~Cur.closed /\ Cur.ear >= (60 * Unit) \div 100
  /\ Cur.ear < (55 * state.baselineEar) \div 100
  /\ state.baselineEar # trace[1].ear
  /\ \E e \in SeenEars : e < state.baselineEar
  /\ \E e \in SeenEars : state.baselineEar < e

\* ----------------------------------------------------- the band, checked
SpectralDone == returned /\ args.fn \in {"computeHeartRate", "estimateRespirationRate"}
\* the configured band of the call, in beats or breaths per minute
BandMin == IF args.fn = "computeHeartRate" THEN 42 ELSE 6
BandMax == IF args.fn = "computeHeartRate" THEN 180 ELSE 30

\* C25: whenever computeHeartRate or estimateRespirationRate returns a
\* non-null bpm, that bpm lies inside the configured band [minBpm, maxBpm]
\* (defaults 42-180 for heart rate, 6-30 for respiration).
C25_BpmInBand ==
  (SpectralDone /\ result.bpm # NullQ) =>
     /\ QLe(QInt(BandMin), result.bpm)
     /\ QLe(result.bpm, QInt(BandMax))

\* C29: whenever computeHeartRate or estimateRespirationRate returns a
\* non-null bpm the returned confidence is 1, and it is 0 when the bpm is
\* null: the confidence only ever takes the values 0 and 1.
C29_ConfidenceIsOne ==
  SpectralDone =>
     /\ result.bpm # NullQ => result.confidence = QOne
     /\ result.bpm = NullQ => result.confidence = QZero

\* a heart rate was read off a spectrum whose peak stands above a non-zero
\* floor, so that peak / mean is above 1 before the clamp
C29_Witness ==
  /\ SpectralDone /\ args.fn = "computeHeartRate"
  /\ result.bpm # NullQ /\ result.confidence = QOne
  /\ args.mags[3] = 3 /\ args.mags[2] = 1 /\ args.mags[4] = 1

\* ------------------------------------------------- facial motion, checked
MotionComputed == motionSeen.n > 0 /\ motionSeen.computed

\* all landmarks moved rigidly since the last frame: the same face, placed anew
RigidMotion ==
  /\ motionSeen.face.jaw = motionSeen.prevFace.jaw
  /\ motionSeen.face.short = motionSeen.prevFace.short

\* C26: whenever a motion value is computed, the fitted transform maps every
\* previous anchor exactly onto its current anchor, and when all landmarks moved
\* rigidly since the last frame the motion value is 0.
C26_RigidMotionIsZero ==
  MotionComputed =>
    /\ motionSeen.mapped = motionSeen.anchorsCurr
    /\ RigidMotion => motionNow = QZero

\* ----------------------------------------------------- lifecycle, checked
\* C27: once the cleanup of the initialisation effect has run, no animation
\* frame is scheduled and no acquired camera track is live, whichever await
\* the cleanup came in between.
C27_NothingLeftAfterUnmount ==
  ~mounted => (scheduled = {} /\ tracks # "live")

\* C30: a press of the Pause/Resume button while the loop runs stops it, a
\* press while it is stopped restarts it, and never is more than one animation
\* frame callback scheduled.
C30_ButtonAlternates ==
  /\ presses.n > 0 => presses.running = ~presses.wasRunning
  /\ Cardinality(scheduled) <= 1

\* ------------------------------------------- stored spans and blinks, checked
\* the span a stored blink timestamp belongs to: it ends at the timestamp and
\* lasted 80 to 500 ms
IsBlinkSpan(s, b) ==
  /\ s.end = b
  /\ s.end - s.start >= BlinkMinMs
  /\ s.end - s.start <= BlinkMaxMs

\* C28: after every update the stored closed spans have start <= end, follow
\* one another in time without overlapping, every stored blink timestamp is the
\* end of a stored closed span that lasted 80 to 500 ms, and there are no more
\* stored blinks than stored closed spans.
C28_SpansAndBlinks ==
  LET spans == state.closedSpans
      blinks == state.blinkTimes
  IN /\ \A i \in DOMAIN spans : spans[i].start <= spans[i].end
     /\ \A i, j \in DOMAIN spans : i < j => spans[i].end <= spans[j].start
     /\ \A k \in DOMAIN blinks : \E i \in DOMAIN spans : IsBlinkSpan(spans[i], blinks[k])
     /\ Len(blinks) <= Len(spans)

\* a long closure and then a blink are both stored, the blink with its span
C28_Witness ==
  /\ Len(trace) > 0
  /\ Len(state.closedSpans) = 2
  /\ state.closedSpans[1].end - state.closedSpans[1].start > BlinkMaxMs
  /\ state.blinkTimes = << state.closedSpans[2].end >>
  /\ IsBlinkSpan(state.closedSpans[2], state.blinkTimes[1])

====
